---- MODULE Spec2Model ----
(***************************************************************************)
(* Tab Tidy: the side panel's organise run (sidepanel.js), the tab         *)
(* classifier (tabClassifier.js), the session manager (aiSession.js), the  *)
(* result renderer's enrichment trigger (uiRenderer.js) and the background *)
(* service worker's message handlers (background.js), over a model of the  *)
(* browser's tabs, tab groups and windows.                                 *)
(*                                                                         *)
(* JavaScript strings that the code inspects character by character        *)
(* (titles, topics) are sequences of one-character strings; strings that   *)
(* it only compares or passes on (labels, messages) are TLA+ strings.      *)
(***************************************************************************)
EXTENDS Integers, Sequences, FiniteSets, TLC

VARIABLES
  tabs,        \* the platform's tabs, in platform order: chrome.tabs.query({})
  tabGroups,   \* the platform's tab groups: chrome.tabGroups.query({})
  focused,     \* chrome.windows.getLastFocused(): [id, type]
  reply,       \* what session.prompt answers for the page of each tab id
  doomed,      \* the ids of the tabs the user closes while a run is going on
  sessions,    \* aiSession.js `sessions`: the three handles
  disabled,    \* organiseTabs.disabled
  pc,          \* where the click handler / performClusteringAndGrouping is
  run,         \* the locals of the current run
  organizedTabsData, \* sidepanel.js `organizedTabsData`
  enrich,      \* names of the result cards whose enrichment task was started
  req,         \* the message the side panel has sent and awaits
  resp,        \* the handler's sendResponse value, not yet consumed
  gt,          \* handleGroupTabs' locals while it runs
  groupSeq,    \* the platform's count of the tab groups it has created
  hist,        \* history: what this run did (requests sent, errors met)
  cls,         \* a single classifyTab call: its arguments and its outcome
  cards,       \* the enrichment task of each result card that has one
  life         \* history of the page: handles made and destroyed, clicks, unload

vars == <<tabs, tabGroups, focused, reply, doomed, sessions, disabled, pc, run,
          organizedTabsData, enrich, req, resp, gt, groupSeq, hist, cls, cards,
          life>>

----------------------------------------------------------------------------
(* Bounds of the model *)

\* the varied tabs at the head of the platform's tab list
MaxPrefix == 2
\* how many tabs more than MAX_TABS the platform may hold
CapOver == 1
\* tab ids a GROUP_TABS request may name when the handler is checked alone
MaxGroupTabs == 3
\* tabs in the list handleDeduplicateTabs is checked on alone
MaxDedupeTabs == 3
\* kinds of tabs before the news pages when the cards are followed
MaxEnrichPrefix == 1
\* clicks on the organise button in the lifetime of the page
MaxRuns == 2
\* news pages in the window when the lifetime of the page is followed
MaxLifeTabs == 2
\* calls of cleanupSessions when it is checked alone
MaxCleanups == 3
\* kinds of tabs before the news pages, and news pages after them, when the
\* end of the run is checked
MaxFairPrefix == 1
\* the tabs of a window the pipeline is run on twice
MaxRerunTabs == 2
\* the classified tabs that are partitioned on their own
MaxPartitionTabs == 3

----------------------------------------------------------------------------
(* Program constants *)

MAX_TABS == 100
BATCH_SIZE == 5
ENRICH_MIN == 5
TOPIC_MAX == 60
TOPIC_MAX_ON_ERROR == 40

CATEGORIES ==
  {"News", "Sports", "Shopping", "Travel", "Learning", "Work", "Development",
   "Social", "Finance", "Entertainment", "Other"}

\* a session handle that is not held: sessions.languageModel = null
NULL == 0

Min(a, b) == IF a < b THEN a ELSE b

----------------------------------------------------------------------------
(* JavaScript string operations on sequences of characters *)

\* the mutant of slice that keeps the whole string
Slice0Whole(s, n) == s

\* s.slice(0, n)
Slice0(s, n) == SubSeq(s, 1, Min(n, Len(s)))

\* 'Unknown'
UNKNOWN == <<"U", "n", "k", "n", "o", "w", "n">>

\* c.toLowerCase() on the characters the model's titles use
LowerChar(c) ==
  CASE c = "A" -> "a"
    [] c = "B" -> "b"
    [] OTHER -> c

\* s.toLowerCase()
ToLowerCase(s) == [i \in 1..Len(s) |-> LowerChar(s[i])]

IsSpace(c) == c = " "

RECURSIVE TrimStart(_)
TrimStart(s) ==
  IF s = <<>> THEN <<>>
  ELSE IF IsSpace(Head(s)) THEN TrimStart(Tail(s)) ELSE s

RECURSIVE TrimEnd(_)
TrimEnd(s) ==
  IF s = <<>> THEN <<>>
  ELSE IF IsSpace(s[Len(s)]) THEN TrimEnd(SubSeq(s, 1, Len(s) - 1)) ELSE s

\* s.trim()
Trim(s) == TrimEnd(TrimStart(s))

\* x || y for strings: the empty string (and undefined) is falsy
OrElse(x, y) == IF x = <<>> THEN y ELSE x

----------------------------------------------------------------------------
(* The classifier: tabClassifier.js classifyTab *)

\* A reply of session.prompt is a sequence of tokens: a code fence
\* ("```json" or "```"), white space, a JSON object with a label and a topic,
\* the JSON value null, or text that is not JSON.
Fence == [t |-> "fence"]
Ws == [t |-> "ws"]
JsonNull == [t |-> "null"]
Prose == [t |-> "prose"]
JsonObj(label, topic) == [t |-> "obj", label |-> label, topic |-> topic]

\* raw.replace(/```json|```/g, '')
StripFences(raw) == SelectSeq(raw, LAMBDA tok : tok.t # "fence")

RECURSIVE TrimStartTokens(_)
TrimStartTokens(raw) ==
  IF raw = <<>> THEN <<>>
  ELSE IF Head(raw).t = "ws" THEN TrimStartTokens(Tail(raw)) ELSE raw

RECURSIVE TrimEndTokens(_)
TrimEndTokens(raw) ==
  IF raw = <<>> THEN <<>>
  ELSE IF raw[Len(raw)].t = "ws"
       THEN TrimEndTokens(SubSeq(raw, 1, Len(raw) - 1))
       ELSE raw

\* .trim() on the reply
TrimTokens(raw) == TrimEndTokens(TrimStartTokens(raw))

\* JSON.parse: succeeds on exactly one JSON value, throws on anything else
JSONParse(text) ==
  IF Len(text) = 1 /\ text[1].t \in {"obj", "null"}
  THEN [ok |-> TRUE, value |-> text[1]]
  ELSE [ok |-> FALSE, value |-> JsonNull]

SESSION_MISSING == "Language model session not available"

Returned(label, topic) ==
  [threw |-> FALSE, error |-> "", label |-> label, topic |-> topic]

Threw(message) ==
  [threw |-> TRUE, error |-> message, label |-> "", topic |-> <<>>]

\* the mutant of classifyTab that lets a rejected prompt call propagate
ClassifyTabNoCatch(session, tabMeta, outcome) ==
  IF session = NULL \/ outcome.kind = "reject"
  THEN Threw(SESSION_MISSING)
  ELSE Returned("Other", Slice0(OrElse(tabMeta.title, UNKNOWN), TOPIC_MAX))

\* classifyTab(session, tabMeta, ...) when session.prompt ends as `outcome`
ClassifyTab(session, tabMeta, outcome) ==
  IF session = NULL THEN Threw(SESSION_MISSING)
  ELSE IF outcome.kind = "reject"
  THEN Returned("Other",
                Slice0(OrElse(tabMeta.title, UNKNOWN), TOPIC_MAX_ON_ERROR))
  ELSE LET parsed == JSONParse(TrimTokens(StripFences(outcome.raw)))
       IN IF parsed.ok /\ parsed.value.t = "obj"
          THEN Returned(
                 IF parsed.value.label = "" THEN "Other" ELSE parsed.value.label,
                 Slice0(OrElse(parsed.value.topic,
                               OrElse(tabMeta.title, UNKNOWN)), TOPIC_MAX))
          ELSE Returned("Other",
                        Slice0(OrElse(tabMeta.title, UNKNOWN), TOPIC_MAX))

Rejects == [kind |-> "reject", raw |-> <<>>]
Replies(raw) == [kind |-> "text", raw |-> raw]

Chars(n) == [i \in 1..n |-> "x"]

----------------------------------------------------------------------------
(* URLs.  A URL is its scheme, its host and the rest of its text:          *)
(* scheme "://" host tail.  NoUrl is a tab without a url ('' or undefined). *)

Url(scheme, host, tail) == [scheme |-> scheme, host |-> host, tail |-> tail]

UrlEspn == Url("https", "espn.com", "/a")
UrlBbc == Url("http", "bbc.com", "/")
\* "chrome://settings/": an internal page
UrlInternal == Url("chrome", "settings", "/")
\* "https://espn.com/?next=chrome://flags": an https page whose query names
\* an internal page
UrlEmbedded == Url("https", "espn.com", "/?next=chrome://flags")
\* "http://": starts with http and does not parse
UrlBad == Url("http", "", "")
NoUrl == Url("", "", "")

\* tab.url (truthy)
HasUrl(u) == u.scheme # ""

\* url.startsWith('http')
StartsWithHttp(u) == u.scheme \in {"http", "https"}

\* url.includes('chrome://')
IncludesChrome(u) == u.scheme = "chrome" \/ u.tail = "/?next=chrome://flags"

\* url.includes('chrome-extension://')
IncludesChromeExtension(u) == u.scheme = "chrome-extension"

\* /^https?:/.test(url || '')
IsHttpUrl(u) == u.scheme \in {"http", "https"}

\* new URL(url) does not throw
UrlParses(u) == HasUrl(u) /\ (u.scheme \in {"http", "https"} => u.host # "")

\* new URL(url).hostname
Hostname(u) == u.host

INVALID_URL == "Invalid URL"

----------------------------------------------------------------------------
(* The platform: tabs, tab groups, windows *)

\* chrome.tabGroups.TAB_GROUP_ID_NONE
NoGroup == -1

Tab(id, url, title, windowId, groupId) ==
  [id |-> id, url |-> url, title |-> title, windowId |-> windowId,
   groupId |-> groupId]

FocusedWindowId == 1
OtherWindowId == 2

TabIds(ts) == {ts[k].id : k \in 1..Len(ts)}

\* chrome.tabs.get(tabId): the tab, when it exists
TabExists(ts, tabId) == tabId \in TabIds(ts)
TabById(ts, tabId) == ts[CHOOSE k \in 1..Len(ts) : ts[k].id = tabId]

\* a group lives as long as it holds a tab
LiveGroups(ts, groups) ==
  {g \in groups : \E k \in 1..Len(ts) : ts[k].groupId = g.id}

\* the mutant of the validity filter that takes every tab with a url
IsValidTabAnyScheme(tab) == HasUrl(tab.url)

\* the validity filter of handleGetTabs and handleDeduplicateTabs
IsValidTab(tab) ==
  /\ HasUrl(tab.url)
  /\ StartsWithHttp(tab.url)
  /\ ~IncludesChrome(tab.url)
  /\ ~IncludesChromeExtension(tab.url)

ValidTabs(ts) == SelectSeq(ts, IsValidTab)

----------------------------------------------------------------------------
(* States at rest *)

NoMsg == [type |-> "none"]

NoResult == [done |-> FALSE, success |-> FALSE, error |-> ""]

\* the locals of initializeSessions and performClusteringAndGrouping
IdleRun ==
  [path |-> "", tabs |-> <<>>, i |-> 0, inflight |-> {}, batchResults |-> <<>>,
   classified |-> <<>>, clusters |-> <<>>, groups |-> <<>>,
   groupResults |-> <<>>, result |-> NoResult]

IdleGt == [active |-> FALSE, groups |-> <<>>, idx |-> 0, results |-> <<>>, win |-> 0]

NoDedupe == [ran |-> FALSE, input |-> <<>>, seen |-> <<>>, toClose |-> <<>>]

NoGrouping ==
  [ran |-> FALSE, groups |-> <<>>, tabs |-> <<>>, groupSeq |-> 0, at |-> <<>>]

\* aiSession.js lines 12-16: no capability has reported progress
NoProgress == [languageModel |-> 0, writer |-> 0, summarizer |-> 0]

\* the platform's groups when handleGetExistingGroups last looked
NoExisting == [queried |-> FALSE, groups |-> {}]

IdleHist ==
  [sent |-> <<>>, errors |-> <<>>, dedupe |-> NoDedupe, grouping |-> NoGrouping,
   created |-> <<>>, initFailed |-> "", prompted |-> <<>>, read |-> FALSE,
   valid |-> <<>>, existing |-> NoExisting, extract |-> {}, init |-> <<>>,
   reported |-> NoProgress, ready |-> <<>>, reports |-> <<>>,
   inferred |-> <<>>]

NoSessions == [languageModel |-> NULL, writer |-> NULL, summarizer |-> NULL]

IdleCls ==
  [called |-> FALSE, session |-> NULL, tabMeta |-> [title |-> <<>>],
   outcome |-> Rejects, ret |-> Threw("")]

\* no result card has an enrichment task
NoCards == <<>>

\* the page has just been loaded: the handles made and destroyed since, those
\* whose destroy() raises, the clicks, the calls of cleanupSessions, and what
\* the runs that have ended made of the tabs
NewLife ==
  [made |-> <<>>, destroyed |-> <<>>, faulty |-> {}, clicks |-> 0,
   cleanups |-> <<>>, past |-> <<>>, progress |-> NoProgress,
   second |-> "none"]

PanelAtRest ==
  /\ sessions = NoSessions
  /\ disabled = FALSE
  /\ pc = "idle"
  /\ run = IdleRun
  /\ organizedTabsData = <<>>
  /\ enrich = {}
  /\ req = NoMsg
  /\ resp = NoMsg
  /\ hist = IdleHist

PlatformEmpty ==
  /\ tabs = <<>>
  /\ tabGroups = {}
  /\ focused = [id |-> FocusedWindowId, type |-> "normal"]
  /\ reply = <<>>
  /\ doomed = {}
  /\ groupSeq = 0

----------------------------------------------------------------------------
(* classifyTab on its own: every session state, title and reply *)

ClsTitles == {<<>>, <<"A", "b">>, Chars(TOPIC_MAX_ON_ERROR + 5), Chars(TOPIC_MAX + 1)}

ClsTopics == {<<>>, <<"t">>, Chars(TOPIC_MAX + 1)}

ClsLabels == {"News", "Other", "Gaming", ""}

ClsOutcomes ==
  {Rejects}
  \cup {Replies(<<JsonObj(l, t)>>) : l \in ClsLabels, t \in ClsTopics}
  \cup {Replies(<<Fence, JsonObj("Sports", <<"t">>), Fence>>),
        Replies(<<Ws, Fence, Ws, JsonObj("Gaming", <<>>), Ws, Fence, Ws>>),
        Replies(<<Prose>>),
        Replies(<<Prose, JsonObj("News", <<"t">>)>>),
        Replies(<<JsonNull>>),
        Replies(<<>>)}

InitClassify ==
  /\ PlatformEmpty
  /\ PanelAtRest
  /\ gt = IdleGt
  /\ cls \in {[called |-> FALSE, session |-> s, tabMeta |-> [title |-> ti],
               outcome |-> o, ret |-> Threw("")] :
                s \in {NULL, 1}, ti \in ClsTitles,
                o \in ClsOutcomes}
  /\ cards = NoCards
  /\ life = NewLife

CallClassifyTab ==
  /\ ~cls.called
  /\ cls' = [cls EXCEPT !.called = TRUE,
                        !.ret = ClassifyTab(cls.session, cls.tabMeta, cls.outcome)]
  /\ UNCHANGED <<tabs, tabGroups, focused, reply, doomed, sessions, disabled, pc, run,
                 organizedTabsData, enrich, req, resp, gt, groupSeq, hist,
                 cards, life>>

NextClassify == CallClassifyTab

SpecClassify == InitClassify /\ [][NextClassify]_vars

----------------------------------------------------------------------------
(* background.js: the message handlers.  A handler takes the request the   *)
(* side panel sent (req) and leaves its sendResponse value in resp.        *)

\* the message of an error a chrome.* call rejects with
PLATFORM_ERROR == "chrome api error"

Request(type) == [type |-> type]

Failure(type, message) == [type |-> type, ok |-> FALSE, error |-> message]

\* the characters of a host name
HostChars(h) ==
  CASE h = "espn.com" -> <<"e", "s", "p", "n", ".", "c", "o", "m">>
    [] h = "bbc.com" -> <<"b", "b", "c", ".", "c", "o", "m">>
    [] h = "settings" -> <<"s", "e", "t", "t", "i", "n", "g", "s">>
    [] OTHER -> <<>>

\* `${host}:${normalizedTitle}` of handleDeduplicateTabs
DedupeKey(tab) ==
  HostChars(Hostname(tab.url)) \o <<":">> \o Trim(ToLowerCase(tab.title))

\* the mutant of seen.has(key) that looks at the tabs after validTabs[k]
SeenHasLater(validTabs, k) ==
  \E j \in (k + 1)..Len(validTabs) :
    /\ UrlParses(validTabs[j].url)
    /\ DedupeKey(validTabs[j]) = DedupeKey(validTabs[k])

\* seen.has(key) when the loop of handleDeduplicateTabs reaches validTabs[k]:
\* an earlier tab whose url parses has put the key in `seen`
SeenHas(validTabs, k) ==
  \E j \in 1..(k - 1) :
    /\ UrlParses(validTabs[j].url)
    /\ DedupeKey(validTabs[j]) = DedupeKey(validTabs[k])

\* The loop of handleDeduplicateTabs over validTabs: the ids of the tabs put
\* in `seen`, and toClose.
DedupeLoop(validTabs) ==
  LET at == [k \in 1..Len(validTabs) |-> k]
      kept == SelectSeq(at, LAMBDA k : /\ UrlParses(validTabs[k].url)
                                       /\ ~SeenHas(validTabs, k))
      dups == SelectSeq(at, LAMBDA k : /\ UrlParses(validTabs[k].url)
                                       /\ SeenHas(validTabs, k))
  IN [seen |-> [k \in 1..Len(kept) |-> validTabs[kept[k]].id],
      toClose |-> [k \in 1..Len(dups) |-> validTabs[dups[k]].id]]

Dedupe(ts) == DedupeLoop(ValidTabs(ts))

SeqToSet(q) == {q[k] : k \in 1..Len(q)}

\* the mutant of the removal that has not closed the tabs when it returns
RemoveTabsNotYet(ts, ids) == ts

\* chrome.tabs.remove(ids)
RemoveTabs(ts, ids) == SelectSeq(ts, LAMBDA tab : tab.id \notin ids)

\* the chrome.* calls of handleDeduplicateTabs succeed
DedupeSucceeds ==
  LET d == Dedupe(tabs)
  IN /\ tabs' = RemoveTabs(tabs, SeqToSet(d.toClose))
     /\ tabGroups' = LiveGroups(tabs', tabGroups)
     /\ resp' = [type |-> "DEDUPLICATE_TABS", ok |-> TRUE,
                 closed |-> Len(d.toClose)]
     /\ hist' = [hist EXCEPT !.dedupe =
                   [ran |-> TRUE, input |-> tabs, seen |-> d.seen,
                    toClose |-> d.toClose]]

\* chrome.tabs.query or chrome.tabs.remove rejects
DedupeFails ==
  /\ resp' = Failure("DEDUPLICATE_TABS", PLATFORM_ERROR)
  /\ UNCHANGED <<tabs, tabGroups, hist>>

HandleDeduplicateTabs ==
  /\ req.type = "DEDUPLICATE_TABS"
  /\ resp = NoMsg
  /\ req' = NoMsg
  /\ (DedupeSucceeds \/ DedupeFails)
  /\ UNCHANGED <<focused, reply, doomed, sessions, disabled, pc, run,
                 organizedTabsData, enrich, gt, groupSeq, cls, cards, life>>

----------------------------------------------------------------------------
(* handleGetTabs, handleGetExistingGroups, handleUngroupAll *)

PanelUnchanged ==
  UNCHANGED <<sessions, disabled, pc, run, organizedTabsData, enrich, cls,
              cards, life>>

HandleGetTabs ==
  /\ req.type = "GET_TABS"
  /\ resp = NoMsg
  /\ req' = NoMsg
  /\ \/ resp' = [type |-> "GET_TABS", ok |-> TRUE, tabs |-> ValidTabs(tabs)]
     \/ resp' = Failure("GET_TABS", PLATFORM_ERROR)
  /\ PanelUnchanged
  /\ UNCHANGED <<tabs, tabGroups, focused, reply, doomed, gt, groupSeq, hist>>

HandleGetExistingGroups ==
  /\ req.type = "GET_EXISTING_GROUPS"
  /\ resp = NoMsg
  /\ req' = NoMsg
  /\ \/ resp' = [type |-> "GET_EXISTING_GROUPS", ok |-> TRUE,
                 groups |-> {g.id : g \in tabGroups}]
     \/ resp' = Failure("GET_EXISTING_GROUPS", PLATFORM_ERROR)
  /\ hist' = [hist EXCEPT !.existing =
                [queried |-> TRUE, groups |-> {g.id : g \in tabGroups}]]
  /\ PanelUnchanged
  /\ UNCHANGED <<tabs, tabGroups, focused, reply, doomed, gt, groupSeq>>

\* chrome.tabs.ungroup(ids)
UngroupTabs(ts, ids) ==
  [k \in 1..Len(ts) |->
     IF ts[k].id \in ids THEN [ts[k] EXCEPT !.groupId = NoGroup] ELSE ts[k]]

HandleUngroupAll ==
  /\ req.type = "UNGROUP_ALL"
  /\ resp = NoMsg
  /\ req' = NoMsg
  /\ \/ /\ tabs' = UngroupTabs(tabs, TabIds(tabs))
        /\ tabGroups' = {}
        /\ resp' = [type |-> "UNGROUP_ALL", ok |-> TRUE,
                    ungrouped |-> Cardinality(tabGroups)]
     \/ /\ resp' = Failure("UNGROUP_ALL", PLATFORM_ERROR)
        /\ UNCHANGED <<tabs, tabGroups>>
  /\ PanelUnchanged
  /\ UNCHANGED <<focused, reply, doomed, gt, groupSeq, hist>>

----------------------------------------------------------------------------
(* handleGroupTabs *)

NOT_NORMAL_WINDOW == "Extension must be used in a normal browser window"
NO_TABS == "No tabs to group"
NO_VALID_TABS == "No valid tabs in current window"

\* the colours the platform gives new groups, in turn
GroupColors ==
  <<"grey", "blue", "red", "yellow", "green", "pink", "purple", "cyan",
    "orange">>

ColorOf(groupId) == GroupColors[(groupId % Len(GroupColors)) + 1]

\* the mutant of the error result that drops the message
GroupFailureBlank(name, message) ==
  [name |-> name, error |-> "", count |-> 0, color |-> ""]

GroupFailure(name, message) ==
  [name |-> name, error |-> message, count |-> 0, color |-> ""]

GroupSuccess(name, count, color) ==
  [name |-> name, error |-> "", count |-> count, color |-> color]

\* the mutant of ValidTabIds that does not look at the tab's window
ValidTabIdsAnyWindow(ts, tabIds, win) ==
  SelectSeq(tabIds, LAMBDA id : TabExists(ts, id))

\* the mutant of the filter that passes every id of the partition on
ValidTabIdsUnchecked(ts, tabIds, win) == tabIds

\* the tab ids of a partition that chrome.tabs.get finds in the window
ValidTabIds(ts, tabIds, win) ==
  SelectSeq(tabIds,
            LAMBDA id : TabExists(ts, id) /\ TabById(ts, id).windowId = win)

\* chrome.tabs.group({tabIds}): the tabs move into the new group `id`
GroupTabsInto(ts, ids, id) ==
  [k \in 1..Len(ts) |->
     IF ts[k].id \in ids THEN [ts[k] EXCEPT !.groupId = id] ELSE ts[k]]

NewGroup(id, title) ==
  [id |-> id, title |-> title, color |-> ColorOf(id), collapsed |-> FALSE]

\* the user brings a window that is not a normal one (a popup, devtools) to
\* the front; it matters only to the request that is about to read it
UserFocusesPopup ==
  /\ req.type = "GROUP_TABS"
  /\ focused.type = "normal"
  /\ focused' = [id |-> 3, type |-> "popup"]
  /\ PanelUnchanged
  /\ UNCHANGED <<tabs, tabGroups, reply, doomed, req, resp, gt, groupSeq, hist>>

\* lines 194-202: the window check
GroupTabsStart ==
  /\ req.type = "GROUP_TABS"
  /\ resp = NoMsg
  /\ ~gt.active
  /\ req' = NoMsg
  /\ \/ /\ focused.type # "normal"
        /\ resp' = Failure("GROUP_TABS", NOT_NORMAL_WINDOW)
        /\ UNCHANGED <<gt, hist>>
     \/ /\ focused.type = "normal"
        /\ gt' = [active |-> TRUE, groups |-> req.groups, idx |-> 1,
                  results |-> <<>>, win |-> focused.id]
        /\ hist' = [hist EXCEPT !.grouping =
                      [ran |-> TRUE, groups |-> req.groups, tabs |-> tabs,
                       groupSeq |-> groupSeq, at |-> <<>>]]
        /\ UNCHANGED resp
     \/ /\ resp' = Failure("GROUP_TABS", PLATFORM_ERROR)
        /\ UNCHANGED <<gt, hist>>
  /\ PanelUnchanged
  /\ UNCHANGED <<tabs, tabGroups, focused, reply, doomed, groupSeq>>

\* the mutant of the loop body's catch that leaves the loop on an error
AfterGroupErrorBreak(group, message) ==
  /\ gt' = [gt EXCEPT !.idx = Len(gt.groups) + 1,
                      !.results = Append(@, GroupFailure(group.name, message))]
  /\ UNCHANGED resp

\* a partition ends in an error result; the loop goes on (lines 206-213,
\* 227-234, 256-263)
AfterGroupError(group, message) ==
  /\ gt' = [gt EXCEPT !.idx = @ + 1,
                      !.results = Append(@, GroupFailure(group.name, message))]
  /\ UNCHANGED resp

\* lines 236-255 for one partition whose tabs `valid` survived; `failAt` is
\* the chrome.* call that rejects, if one does
GroupOnePartition(group, valid, failAt) ==
  LET id == groupSeq + 1
      made == GroupTabsInto(tabs, SeqToSet(valid), id)
  IN IF failAt = "group"
     THEN /\ AfterGroupError(group, PLATFORM_ERROR)
          /\ UNCHANGED <<tabs, tabGroups, groupSeq>>
     ELSE /\ tabs' = made
          /\ groupSeq' = id
          /\ tabGroups' =
               LiveGroups(made, tabGroups)
                 \cup {NewGroup(id, IF failAt = "update" THEN "" ELSE group.name)}
          /\ IF failAt = "none"
             THEN /\ gt' = [gt EXCEPT
                       !.idx = @ + 1,
                       !.results = Append(@, GroupSuccess(group.name, Len(valid),
                                                          ColorOf(id)))]
                  /\ UNCHANGED resp
             ELSE AfterGroupError(group, PLATFORM_ERROR)

\* the loop body for the partition at gt.idx (lines 204-264)
GroupTabsStep ==
  /\ gt.active
  /\ gt.idx <= Len(gt.groups)
  /\ LET group == gt.groups[gt.idx]
         valid == ValidTabIds(tabs, group.tabIds, gt.win)
     IN IF group.tabIds = <<>>
        THEN /\ AfterGroupError(group, NO_TABS)
             /\ hist' = [hist EXCEPT !.grouping.at = Append(@, "skipped")]
             /\ UNCHANGED <<tabs, tabGroups, groupSeq>>
        ELSE IF valid = <<>>
        THEN /\ AfterGroupError(group, NO_VALID_TABS)
             /\ hist' = [hist EXCEPT !.grouping.at = Append(@, "skipped")]
             /\ UNCHANGED <<tabs, tabGroups, groupSeq>>
        ELSE \E failAt \in {"none", "group", "update", "get"} :
               /\ GroupOnePartition(group, valid, failAt)
               /\ hist' = [hist EXCEPT !.grouping.at = Append(@, failAt)]
  /\ PanelUnchanged
  /\ UNCHANGED <<focused, reply, doomed, req>>

\* line 266
GroupTabsFinish ==
  /\ gt.active
  /\ gt.idx > Len(gt.groups)
  /\ resp' = [type |-> "GROUP_TABS", ok |-> TRUE, results |-> gt.results]
  /\ gt' = IdleGt
  /\ PanelUnchanged
  /\ UNCHANGED <<tabs, tabGroups, focused, reply, doomed, req, groupSeq, hist>>

HandleGroupTabs == GroupTabsStart \/ GroupTabsStep \/ GroupTabsFinish

----------------------------------------------------------------------------
(* handleDeduplicateTabs on its own: every short tab list *)

TitleAb == <<"A", "b">>
TitleAbSpaced == <<" ", "a", "B", " ">>
TitleB == <<"B">>

DedupeUrls == {UrlEspn, UrlBbc, UrlInternal, UrlEmbedded, UrlBad}
DedupeTitles == {TitleAb, TitleAbSpaced, TitleB}

DedupeInputs ==
  UNION {[1..n -> DedupeUrls \X DedupeTitles] : n \in 0..MaxDedupeTabs}

InitDedupe ==
  /\ \E input \in DedupeInputs :
       tabs = [k \in 1..Len(input) |->
                 Tab(k, input[k][1], input[k][2], FocusedWindowId, NoGroup)]
  /\ tabGroups = {}
  /\ focused = [id |-> FocusedWindowId, type |-> "normal"]
  /\ reply = <<>>
  /\ doomed = {}
  /\ groupSeq = 0
  /\ sessions = NoSessions
  /\ disabled = FALSE
  /\ pc = "idle"
  /\ run = IdleRun
  /\ organizedTabsData = <<>>
  /\ enrich = {}
  /\ req = Request("DEDUPLICATE_TABS")
  /\ resp = NoMsg
  /\ hist = IdleHist
  /\ gt = IdleGt
  /\ cls = IdleCls
  /\ cards = NoCards
  /\ life = NewLife

NextDedupe == HandleDeduplicateTabs

SpecDedupe == InitDedupe /\ [][NextDedupe]_vars

----------------------------------------------------------------------------
(* handleGroupTabs on its own: every request over a few tab ids, each of   *)
(* which is open in the focused window, open in another window, or closed  *)

GroupNames == <<"News", "Sports", "Other">>

\* where each tab id is: 1 the focused window, 2 another window, 0 closed
TabPlaces == {0, FocusedWindowId, OtherWindowId}

\* the ids of 1..n that `assign` gives to partition p, in ascending order
RECURSIVE IdsOf(_, _, _)
IdsOf(assign, p, k) ==
  IF k > Len(assign) THEN <<>>
  ELSE IF assign[k] = p THEN <<k>> \o IdsOf(assign, p, k + 1)
       ELSE IdsOf(assign, p, k + 1)

GroupRequest(assign) ==
  [type |-> "GROUP_TABS",
   groups |-> [p \in 1..Len(GroupNames) |->
                 [name |-> GroupNames[p], tabIds |-> IdsOf(assign, p, 1)]]]

OpenTabs(place) ==
  LET open == SelectSeq([k \in 1..Len(place) |-> k], LAMBDA k : place[k] # 0)
  IN [j \in 1..Len(open) |->
        Tab(open[j], UrlEspn, TitleAb, place[open[j]], NoGroup)]

InitGroup ==
  /\ \E n \in 0..MaxGroupTabs :
       \E place \in [1..n -> TabPlaces], assign \in [1..n -> 0..Len(GroupNames)] :
         /\ tabs = OpenTabs(place)
         /\ req = GroupRequest(assign)
  /\ tabGroups = {}
  /\ focused = [id |-> FocusedWindowId, type |-> "normal"]
  /\ reply = <<>>
  /\ doomed = {}
  /\ groupSeq = 0
  /\ sessions = NoSessions
  /\ disabled = FALSE
  /\ pc = "idle"
  /\ run = IdleRun
  /\ organizedTabsData = <<>>
  /\ enrich = {}
  /\ resp = NoMsg
  /\ hist = IdleHist
  /\ gt = IdleGt
  /\ cls = IdleCls
  /\ cards = NoCards
  /\ life = NewLife

NextGroup == UserFocusesPopup \/ HandleGroupTabs

SpecGroup == InitGroup /\ [][NextGroup]_vars

----------------------------------------------------------------------------
(* aiSession.js initializeSessions, called by the organise click handler *)

AVAILABILITY_ERROR == "availability check failed"
CREATE_ERROR == "session creation failed"
TRANSPORT_ERROR == "Could not establish connection. Receiving end does not exist."
READ_TABS_FAILED == "Failed to read tabs"
GROUP_TABS_FAILED == "Failed to create tab groups"
PUSH_NOT_FUNCTION == "labelGroups[label].push is not a function"

Capabilities == <<"languageModel", "writer", "summarizer">>

PlatformUnchanged ==
  UNCHANGED <<tabs, tabGroups, focused, reply, doomed, gt, groupSeq>>

\* the run ends: the catch of performClusteringAndGrouping (lines 321-327) or
\* of the click handler (163-165), then its finally (166-168)
EndRun(success, message) ==
  /\ pc' = "done"
  /\ run' = [run EXCEPT !.result =
               [done |-> TRUE, success |-> success, error |-> message]]
  /\ disabled' = FALSE

\* the same, keeping locals that the step has just set
EndRunWith(locals, success, message) ==
  /\ pc' = "done"
  /\ run' = [locals EXCEPT !.result =
               [done |-> TRUE, success |-> success, error |-> message]]
  /\ disabled' = FALSE

\* lines 146-148: the click handler starts
StartRun ==
  /\ pc' = "availability"
  /\ run' = IdleRun
  /\ hist' = IdleHist
  /\ life' = [life EXCEPT
       !.clicks = @ + 1,
       !.past = IF run.result.done
                THEN Append(@, [success |-> run.result.success,
                                groups |-> run.groups,
                                deduped |-> hist.dedupe.ran,
                                closed |-> hist.dedupe.toClose])
                ELSE @]
  /\ PlatformUnchanged
  /\ UNCHANGED <<sessions, disabled, organizedTabsData, enrich, req, resp,
                 cls, cards>>

\* line 146: the click on the organise button
Click ==
  /\ pc = "idle"
  /\ ~disabled
  /\ StartRun

\* what initializeSessions has done so far: a create() call is made, settles
\* or rejects, the settling wait is over
InitEvent(ev, cap) == [ev |-> ev, cap |-> cap]

Started(h, cap) == [h EXCEPT !.init = Append(@, InitEvent("start", cap))]

\* lines 111-135 of aiSession.js: the three availability() calls
Availability ==
  /\ pc = "availability"
  /\ \/ /\ EndRun(FALSE, AVAILABILITY_ERROR)
        /\ hist' = [hist EXCEPT !.initFailed = "availability"]
     \/ /\ pc' = "createLanguageModel"
        /\ run' = [run EXCEPT !.path = "direct"]
        /\ hist' = Started(hist, "languageModel")
        /\ UNCHANGED disabled
     \/ /\ pc' = "createLanguageModel"
        /\ run' = [run EXCEPT !.path = "sequential"]
        /\ disabled' = TRUE
        /\ hist' = Started(hist, "languageModel")
  /\ PlatformUnchanged
  /\ UNCHANGED <<sessions, organizedTabsData, enrich, req, resp,
                 cls, cards, life>>

AfterCreate(cap) ==
  CASE cap = "languageModel" -> "createWriter"
    [] cap = "writer" -> "createSummarizer"
    [] cap = "summarizer" -> "initialized"

CreatePc(cap) ==
  CASE cap = "languageModel" -> "createLanguageModel"
    [] cap = "writer" -> "createWriter"
    [] cap = "summarizer" -> "createSummarizer"
    [] OTHER -> "none"

\* the mutant of the failure of a create() call that goes on to the next one
OnCreateFailedGoOn(cap) ==
  /\ pc' = AfterCreate(cap)
  /\ UNCHANGED <<run, disabled>>

\* a create() call rejects: the error leaves initializeSessions (lines
\* 174-184, or uncaught on the direct path) and ends the click handler
OnCreateFailed(cap) == EndRun(FALSE, CREATE_ERROR)

\* the capability whose create() call comes after that of `cap`
CapAfter(cap) ==
  CASE cap = "languageModel" -> "writer"
    [] cap = "writer" -> "summarizer"
    [] cap = "summarizer" -> ""

\* lines 148, 161: where the sequential path waits after a create()
SettlePc(cap) ==
  CASE cap = "languageModel" -> "settleWriter"
    [] cap = "writer" -> "settleSummarizer"
    [] cap = "summarizer" -> "initialized"

\* the mutant of the sequential path that goes to the next create() at once
AfterCreateOnNoWait(path, cap) == AfterCreate(cap)

\* where initializeSessions goes when a create() call has settled: to the
\* settling wait on the sequential path (lines 148, 161), to the next call
\* on the direct one (lines 186-200)
AfterCreateOn(path, cap) ==
  IF path = "sequential" THEN SettlePc(cap) ELSE AfterCreate(cap)

\* line 173: the sequential path logs 'All models ready!' after its last
\* create(); the log entry is kept with the progress reported so far
ReadySignal(h, via, enables) ==
  [h EXCEPT !.ready = Append(@, [via |-> via, enables |-> enables,
                                 reported |-> h.reported])]

\* LanguageModel.create, Writer.create, Summarizer.create
CreateSession(cap) ==
  /\ pc = CreatePc(cap)
  /\ \/ /\ sessions' = [sessions EXCEPT ![cap] = Len(life.made) + 1]
        /\ life' = [life EXCEPT !.made =
                      Append(@, [cap |-> cap, id |-> Len(life.made) + 1])]
        /\ pc' = AfterCreateOn(run.path, cap)
        /\ LET settled == [hist EXCEPT
                             !.created = Append(@, cap),
                             !.init = Append(@, InitEvent("settle", cap))]
               called == IF pc' = CreatePc(CapAfter(cap))
                         THEN Started(settled, CapAfter(cap))
                         ELSE settled
           IN hist' = IF run.path = "sequential" /\ cap = "summarizer"
                      THEN ReadySignal(called, "created", FALSE)
                      ELSE called
        /\ UNCHANGED <<run, disabled>>
     \/ /\ hist' = [hist EXCEPT !.created = Append(@, cap),
                                !.initFailed = cap,
                                !.init = Append(@, InitEvent("reject", cap))]
        /\ OnCreateFailed(cap)
        /\ UNCHANGED <<sessions, life>>
  /\ PlatformUnchanged
  /\ UNCHANGED <<organizedTabsData, enrich, req, resp, cls, cards>>

\* lines 148, 161: the settling wait of the sequential path is over and the
\* next create() call is made
SettlingWait(cap) ==
  /\ pc = SettlePc(cap)
  /\ cap # "summarizer"
  /\ pc' = CreatePc(CapAfter(cap))
  /\ hist' = Started([hist EXCEPT !.init = Append(@, InitEvent("wait", cap))],
                     CapAfter(cap))
  /\ PlatformUnchanged
  /\ UNCHANGED <<sessions, disabled, run, organizedTabsData, enrich, req, resp,
                 cls, cards, life>>

\* the percentages e.loaded * 100 of the downloadprogress events
ProgressSteps == {50, 100}

\* lines 92-101, checkAllModelsComplete: every tracked percentage is at 100
AllComplete(progress) == \A cap \in DOMAIN progress : progress[cap] >= 100

\* lines 139-141, 152-154, 165-167 and updateModelProgress (60-90): a
\* downloadprogress event of the create() call in flight on the sequential
\* path; the percentage is kept and checkAllModelsComplete is called
DownloadProgress(cap) ==
  /\ pc = CreatePc(cap)
  /\ run.path = "sequential"
  /\ \E percentage \in ProgressSteps :
       /\ percentage > hist.reported[cap]
       /\ life' = [life EXCEPT !.progress[cap] = percentage]
       /\ LET told == [hist EXCEPT !.reported[cap] = percentage]
          IN IF AllComplete(life'.progress)
             THEN /\ hist' = ReadySignal(told, "progress", TRUE)
                  /\ disabled' = FALSE
             ELSE /\ hist' = told
                  /\ UNCHANGED disabled
  /\ PlatformUnchanged
  /\ UNCHANGED <<sessions, pc, run, organizedTabsData, enrich, req, resp, cls,
                 cards>>

InitializeSessions ==
  \/ Availability
  \/ \E c \in 1..Len(Capabilities) : CreateSession(Capabilities[c])
  \/ \E c \in 1..Len(Capabilities) : SettlingWait(Capabilities[c])

\* a later click, on the button the run before has enabled again
ClickAgain ==
  /\ pc = "done"
  /\ ~disabled
  /\ life.clicks < MaxRuns
  /\ StartRun

----------------------------------------------------------------------------
(* aiSession.js cleanupSessions *)

\* the place in the order of lines 42-53 of the first held handle whose
\* destroy() raises, past the last place if there is none
RaisesAt(held, faulty) ==
  LET R == {c \in 1..Len(Capabilities) :
              held[Capabilities[c]] # NULL /\ held[Capabilities[c]] \in faulty}
  IN IF R = {} THEN Len(Capabilities) + 1
     ELSE CHOOSE c \in R : \A d \in R : c <= d

\* the handles destroy() has returned for, in the order of the calls
DestroyedBy(held, faulty) ==
  SelectSeq([c \in 1..(RaisesAt(held, faulty) - 1) |-> held[Capabilities[c]]],
            LAMBDA h : h # NULL)

\* the mutant of cleanupSessions that leaves the summarizer's handle set
SessionsAfterCleanupKeepSummarizer(held, faulty) ==
  [held EXCEPT !.languageModel = NULL, !.writer = NULL]

\* lines 41-56: each held handle is destroyed and unset in turn, up to the
\* first destroy() that raises; the catch keeps the error
SessionsAfterCleanup(held, faulty) ==
  [cap \in DOMAIN held |->
     IF \E c \in 1..(RaisesAt(held, faulty) - 1) : Capabilities[c] = cap
     THEN NULL
     ELSE held[cap]]

\* cleanupSessions is called and returns
CleanupSessions ==
  /\ sessions' = SessionsAfterCleanup(sessions, life.faulty)
  /\ life' = [life EXCEPT
                !.destroyed = @ \o DestroyedBy(sessions, life.faulty),
                !.cleanups = Append(@,
                   [before |-> sessions,
                    after |-> sessions',
                    destroyed |-> DestroyedBy(sessions, life.faulty),
                    raised |-> RaisesAt(sessions, life.faulty)
                                 <= Len(Capabilities)])]

\* sidepanel.js lines 346-349: the page is unloaded
BeforeUnload ==
  /\ pc # "unloaded"
  /\ CleanupSessions
  /\ pc' = "unloaded"
  /\ PlatformUnchanged
  /\ UNCHANGED <<disabled, run, organizedTabsData, enrich, req, resp, hist,
                 cls, cards>>

----------------------------------------------------------------------------
(* sidepanel.js performClusteringAndGrouping *)

\* chrome.runtime.sendMessage({type, ...})
Send(message) ==
  /\ req' = message
  /\ resp' = NoMsg
  /\ pc' = "awaitReply"

Sent(h, type) == [h EXCEPT !.sent = Append(@, type)]

\* an error comes up in a step of the run
Erred(h, step, message) ==
  [h EXCEPT !.errors = Append(@, [step |-> step, message |-> message])]

\* lines 174-180
StartClustering ==
  /\ pc = "initialized"
  /\ organizedTabsData' = <<>>
  /\ Send(Request("GET_EXISTING_GROUPS"))
  /\ hist' = Sent(hist, "GET_EXISTING_GROUPS")
  /\ PlatformUnchanged
  /\ UNCHANGED <<sessions, disabled, run, enrich, cls, cards, life>>

\* lines 181-193
RecvExistingGroups ==
  /\ pc = "awaitReply"
  /\ resp.type = "GET_EXISTING_GROUPS"
  /\ IF resp.ok /\ resp.groups # {}
     THEN /\ Send(Request("UNGROUP_ALL"))
          /\ hist' = Sent(hist, "UNGROUP_ALL")
     ELSE /\ Send(Request("DEDUPLICATE_TABS"))
          /\ hist' = Sent(IF resp.ok THEN hist
                          ELSE Erred(hist, "GET_EXISTING_GROUPS", resp.error),
                          "DEDUPLICATE_TABS")
  /\ PlatformUnchanged
  /\ UNCHANGED <<sessions, disabled, run, organizedTabsData, enrich, cls,
              cards, life>>

\* lines 184-193: the reply to UNGROUP_ALL is not looked at
RecvUngroupAll ==
  /\ pc = "awaitReply"
  /\ resp.type = "UNGROUP_ALL"
  /\ Send(Request("DEDUPLICATE_TABS"))
  /\ hist' = Sent(IF resp.ok THEN hist
                  ELSE Erred(hist, "UNGROUP_ALL", resp.error),
                  "DEDUPLICATE_TABS")
  /\ PlatformUnchanged
  /\ UNCHANGED <<sessions, disabled, run, organizedTabsData, enrich, cls,
              cards, life>>

\* lines 193-197
RecvDedupe ==
  /\ pc = "awaitReply"
  /\ resp.type = "DEDUPLICATE_TABS"
  /\ Send(Request("GET_TABS"))
  /\ hist' = Sent(IF resp.ok THEN hist
                  ELSE Erred(hist, "DEDUPLICATE_TABS", resp.error),
                  "GET_TABS")
  /\ PlatformUnchanged
  /\ UNCHANGED <<sessions, disabled, run, organizedTabsData, enrich, cls,
              cards, life>>

\* line 199
HttpTabs(ts) == SelectSeq(ts, LAMBDA tab : IsHttpUrl(tab.url))

\* the mutant of the cap that keeps one tab too many
CapTabsOffByOne(ts) ==
  IF Len(ts) > MAX_TABS THEN SubSeq(ts, 1, MAX_TABS + 1) ELSE ts

\* lines 202-208: tabs.splice(MAX_TABS)
CapTabs(ts) == IF Len(ts) > MAX_TABS THEN SubSeq(ts, 1, MAX_TABS) ELSE ts

\* lines 197-224
RecvGetTabs ==
  /\ pc = "awaitReply"
  /\ resp.type = "GET_TABS"
  /\ resp' = NoMsg
  /\ IF ~resp.ok
     THEN /\ EndRun(FALSE, READ_TABS_FAILED)
          /\ hist' = Erred(hist, "GET_TABS", resp.error)
     ELSE LET working == CapTabs(HttpTabs(resp.tabs))
              read == [hist EXCEPT !.read = TRUE,
                                   !.valid = HttpTabs(resp.tabs)]
          IN IF \E k \in 1..Len(working) : ~UrlParses(working[k].url)
             THEN /\ EndRunWith([run EXCEPT !.tabs = working], FALSE,
                                 INVALID_URL)
                  /\ hist' = Erred(read, "extract", INVALID_URL)
             ELSE /\ pc' = "classify"
                  /\ run' = [run EXCEPT !.tabs = working, !.i = 0]
                  /\ hist' = read
                  /\ UNCHANGED disabled
  /\ PlatformUnchanged
  /\ UNCHANGED <<sessions, organizedTabsData, enrich, req, cls, cards, life>>

\* lines 216-222: the metadata classifyTab gets for a tab
Extracted(tab) ==
  [tabId |-> tab.id, url |-> tab.url, title |-> tab.title,
   host |-> Hostname(tab.url)]

\* the mutant of the loop's test in which one batch is enough
LoopDoneAfterOneBatch(i, n) == i >= Min(BATCH_SIZE, n)

\* line 233: the test of the loop over the batches, i < tabData.length, fails
LoopDone(i, n) == i >= n

\* the mutant of the batch that takes every tab left
BatchOfAllLeft(i, n) == (i + 1)..n

\* line 234: the places in tabData of tabData.slice(i, i + BATCH_SIZE)
BatchOf(i, n) == (i + 1)..Min(i + BATCH_SIZE, n)

\* the mutant of classifyTab that prompts a second time for each tab
PromptCallsWithRetry(session, ids) ==
  IF session = NULL THEN <<>> ELSE ids \o ids

\* tabClassifier.js lines 45-51: the session.prompt calls of the classifyTab
\* calls for the tabs `ids`, one each, none without a session
PromptCalls(session, ids) == IF session = NULL THEN <<>> ELSE ids

\* tabClassifier.js line 43: the text classifyTab reports when it is called
ProgressReport(idx, total) == [n |-> idx, total |-> total]

\* lines 233-245: the calls of one batch are made
BatchIssue ==
  /\ pc = "classify"
  /\ run.inflight = {}
  /\ ~LoopDone(run.i, Len(run.tabs))
  /\ LET batch == BatchOf(run.i, Len(run.tabs))
         ids == [k \in 1..Cardinality(batch) |-> run.tabs[run.i + k].id]
         called == [hist EXCEPT
                      !.prompted = @ \o ids,
                      !.reports =
                         @ \o [k \in 1..Cardinality(batch) |->
                                 ProgressReport(run.i + k, Len(run.tabs))],
                      !.inferred =
                         @ \o PromptCalls(sessions.languageModel, ids)]
     IN IF sessions.languageModel = NULL
        THEN /\ EndRun(FALSE, SESSION_MISSING)
             /\ hist' = Erred(called, "classify", SESSION_MISSING)
        ELSE /\ run' = [run EXCEPT !.inflight = batch, !.batchResults = <<>>]
             /\ hist' = called
             /\ UNCHANGED <<pc, disabled>>
  /\ PlatformUnchanged
  /\ UNCHANGED <<sessions, organizedTabsData, enrich, req, resp,
                 cls, cards, life>>

\* lines 248-255: a tab with its classification
Classified(tab, ret) ==
  [tabId |-> tab.id, url |-> tab.url, title |-> tab.title,
   label |-> IF ret.label = "" THEN "Other" ELSE ret.label,
   topic |-> Slice0(ret.topic, TOPIC_MAX)]

\* one classifyTab call of the batch settles; with the last one Promise.all
\* does, and the batch's results are pushed (lines 235-256)
PromptSettles(j) ==
  /\ pc = "classify"
  /\ j \in run.inflight
  /\ LET ret == ClassifyTab(sessions.languageModel,
                            Extracted(run.tabs[j]), reply[run.tabs[j].id])
         results == (j :> ret) @@ run.batchResults
         left == run.inflight \ {j}
         batch == BatchOf(run.i, Len(run.tabs))
     IN run' = IF left # {}
               THEN [run EXCEPT !.inflight = left, !.batchResults = results]
               ELSE [run EXCEPT
                       !.inflight = {},
                       !.batchResults = <<>>,
                       !.i = @ + BATCH_SIZE,
                       !.classified =
                          @ \o [k \in 1..Cardinality(batch) |->
                                  Classified(run.tabs[run.i + k],
                                             results[run.i + k])]]
  /\ PlatformUnchanged
  /\ UNCHANGED <<sessions, disabled, pc, organizedTabsData, enrich, req, resp,
                 hist, cls, cards, life>>

\* lines 259-266
Organized(item) ==
  [tabId |-> item.tabId, title |-> item.title, url |-> item.url,
   label |-> item.label, topic |-> item.topic]

\* the names Object.prototype gives every object: labelGroups[name] is there
\* before anything is put in it
ObjectPrototypeKeys == {"constructor"}

\* item.label of classified[idx]; idx counts from 0
LabelAt(classified, idx) == classified[idx + 1].label

\* line 275: labelGroups has no list for the label of item idx yet
IsNewLabel(classified, idx) ==
  \A j \in 0..(idx - 1) : LabelAt(classified, j) # LabelAt(classified, idx)

\* the mutant of the label loop that starts a label's list without the item
ItemsOfDropFirst(classified, label) ==
  Tail(SelectSeq([k \in 1..Len(classified) |-> k - 1],
                 LAMBDA idx : LabelAt(classified, idx) = label))

\* lines 274-278: the list labelGroups holds for a label after the loop
ItemsOf(classified, label) ==
  SelectSeq([k \in 1..Len(classified) |-> k - 1],
            LAMBDA idx : LabelAt(classified, idx) = label)

\* the labels of the model that JavaScript takes for array indexes (the
\* canonical decimal form of an integer), in ascending order of the integer
IntegerKeys == <<"7", "10">>

IsIntegerKey(label) ==
  \E k \in 1..Len(IntegerKeys) : IntegerKeys[k] = label

\* line 282: the keys of Object.entries(labelGroups): the integer keys in
\* ascending order, then the other keys in the order they were put in
OwnKeys(inserted) ==
  SelectSeq(IntegerKeys,
            LAMBDA key : \E k \in 1..Len(inserted) : inserted[k] = key)
    \o SelectSeq(inserted, LAMBDA key : ~IsIntegerKey(key))

\* lines 272-285: Object.entries(labelGroups) as clusters
Clusters(classified) ==
  LET firsts == SelectSeq([k \in 1..Len(classified) |-> k - 1],
                          LAMBDA idx : IsNewLabel(classified, idx))
      keys == OwnKeys([k \in 1..Len(firsts) |->
                         LabelAt(classified, firsts[k])])
  IN [k \in 1..Len(keys) |->
        [name |-> keys[k], items |-> ItemsOf(classified, keys[k])]]

\* lines 288-291
GroupsOf(clusters, classified) ==
  [k \in 1..Len(clusters) |->
     [name |-> clusters[k].name,
      tabIds |-> SelectSeq([m \in 1..Len(clusters[k].items) |->
                              classified[clusters[k].items[m] + 1].tabId],
                           LAMBDA id : id # 0)]]

\* lines 258-299, after the last batch
PartitionAndSend ==
  /\ pc = "classify"
  /\ run.inflight = {}
  /\ LoopDone(run.i, Len(run.tabs))
  /\ organizedTabsData' = [k \in 1..Len(run.classified) |->
                             Organized(run.classified[k])]
  /\ IF \E k \in 1..Len(run.classified) :
          run.classified[k].label \in ObjectPrototypeKeys
     THEN /\ EndRun(FALSE, PUSH_NOT_FUNCTION)
          /\ hist' = Erred(hist, "partition", PUSH_NOT_FUNCTION)
          /\ UNCHANGED <<req, resp>>
     ELSE LET clusters == Clusters(run.classified)
              groups == GroupsOf(clusters, run.classified)
          IN /\ run' = [run EXCEPT !.clusters = clusters, !.groups = groups]
             /\ Send([type |-> "GROUP_TABS", groups |-> groups])
             /\ hist' = Sent(hist, "GROUP_TABS")
             /\ UNCHANGED disabled
  /\ PlatformUnchanged
  /\ UNCHANGED <<sessions, enrich, cls, cards, life>>

\* line 70: what stands for an item the shared list does not hold
UnknownTab ==
  [tabId |-> NULL, title |-> <<"U", "n", "k", "n", "o", "w", "n">>,
   url |-> Url("", "#", ""), label |-> "", topic |-> <<>>]

\* uiRenderer.js getTabsForGroup (lines 64-73): the tabs of a result's card
GetTabsForGroup(clusters, index, organized) ==
  IF index > Len(clusters) THEN <<>>
  ELSE [m \in 1..Len(clusters[index].items) |->
          IF clusters[index].items[m] + 1 \in DOMAIN organized
          THEN organized[clusters[index].items[m] + 1]
          ELSE UnknownTab]

\* the mutant of the test of line 117 that every card passes
QualifiesAlways(groupTabs) == TRUE

\* uiRenderer.js line 117: groupTabs && groupTabs.length >= 5
Qualifies(groupTabs) == Len(groupTabs) >= ENRICH_MIN

\* uiRenderer.js displayGroupResults and createGroupItem (lines 118, 149,
\* 255-270): the cards whose enrichment task is started
EnrichmentStarted(clusters, results, organized) ==
  {results[k].name : k \in
     {x \in 1..Len(results) :
        Qualifies(GetTabsForGroup(clusters, x, organized))}}

\* uiRenderer.js lines 156-165: the tabs for which the new cards' tasks send
\* EXTRACT_TAB_CONTENT, each task at once for every tab of its card
ExtractRequests(clusters, results, organized) ==
  UNION {LET groupTabs == GetTabsForGroup(clusters, x, organized)
         IN IF Qualifies(groupTabs)
            THEN {groupTabs[m].tabId : m \in 1..Len(groupTabs)}
            ELSE {} : x \in 1..Len(results)}

\* a JavaScript value that is a string or null
Str(text) == [t |-> "string", s |-> text]
Null == [t |-> "null", s |-> ""]
Pending == [t |-> "pending", s |-> ""]
Truthy(v) == v.t = "string" /\ v.s # ""

SUMMARY_FAILED == "Summary generation failed"
SUMMARY_UNAVAILABLE == "Summary unavailable"
CONTENT_UNAVAILABLE == "Content unavailable"

\* how a summarize or write call of a session settles
CallOk(text) == [kind |-> "ok", text |-> text]
CallFails == [kind |-> "reject", text |-> ""]

SummarizeOutcomes == {CallOk("a summary"), CallOk(""), CallFails}
WriteOutcomes == {CallOk("an overview"), CallFails}

\* uiRenderer.js lines 118-152: the card's placeholders, the task's first
\* log line
NewCard ==
  [phase |-> "extracting", summary |-> Pending, content |-> Pending,
   summarizeFailed |-> FALSE, writeFailed |-> FALSE,
   summaryText |-> "Generating summary...",
   contentText |-> "Generating content...",
   log |-> <<"Extracting content for">>,
   waiting |-> {}, withBody |-> {}, silent |-> {}]

\* lines 156-163: one EXTRACT_TAB_CONTENT request per tab of the card, all of
\* them sent before the first await of the task yields
CardFor(tabIds) == [NewCard EXCEPT !.waiting = tabIds]

\* the tabs of the cards that carry a partition name (line 73, line 117)
CardTabs(clusters, results, organized, name) ==
  UNION {LET groupTabs == GetTabsForGroup(clusters, x, organized)
         IN IF Qualifies(groupTabs) /\ results[x].name = name
            THEN {groupTabs[m].tabId : m \in 1..Len(groupTabs)}
            ELSE {} : x \in 1..Len(results)}

\* lines 299-320
RecvGroupTabs ==
  /\ pc = "awaitReply"
  /\ resp.type = "GROUP_TABS"
  /\ resp' = NoMsg
  /\ IF resp.ok
     THEN /\ enrich' = EnrichmentStarted(run.clusters, resp.results,
                                         organizedTabsData)
          /\ cards' = [name \in enrich' |->
                         CardFor(CardTabs(run.clusters, resp.results,
                                          organizedTabsData, name))]
          /\ EndRunWith([run EXCEPT !.groupResults = resp.results], TRUE, "")
          /\ hist' = [hist EXCEPT !.extract =
                        ExtractRequests(run.clusters, resp.results,
                                        organizedTabsData)]
     ELSE /\ EndRun(FALSE, GROUP_TABS_FAILED)
          /\ hist' = Erred(hist, "GROUP_TABS", resp.error)
          /\ UNCHANGED <<enrich, cards>>
  /\ PlatformUnchanged
  /\ UNCHANGED <<sessions, organizedTabsData, req, cls, life>>

----------------------------------------------------------------------------
(* uiRenderer.js createGroupItem: the enrichment task of a card *)

\* generateGroupSummary (lines 369-383)
GenerateGroupSummary(summarizerSession, outcome) ==
  IF summarizerSession = NULL \/ outcome.kind = "reject"
  THEN Str(SUMMARY_FAILED)
  ELSE Str(outcome.text)

\* generateGroupContent (lines 386-399)
GenerateGroupContent(writerSession, outcome) ==
  IF writerSession = NULL \/ outcome.kind = "reject"
  THEN Null
  ELSE Str(outcome.text)

\* lines 187-209: the card once both calls have settled
ShowCard(card) ==
  [card EXCEPT
     !.phase = "shown",
     !.summaryText =
        IF Truthy(card.summary) THEN card.summary.s ELSE SUMMARY_UNAVAILABLE,
     !.contentText =
        IF Truthy(card.content) THEN card.content.s ELSE CONTENT_UNAVAILABLE,
     !.log = @ \o (IF Truthy(card.summary) THEN <<>>
                   ELSE <<"Summary generation failed for">>)
               \o (IF Truthy(card.content) THEN <<>>
                   ELSE <<"Overview generation failed for">>)
               \o (IF Truthy(card.summary) /\ Truthy(card.content)
                   THEN <<"Summary and overview generated for">>
                   ELSE <<>>)]

\* Promise.all of line 182: the card is filled in when the second call settles
Settled(card) ==
  IF card.summary # Pending /\ card.content # Pending
  THEN ShowCard(card)
  ELSE card

\* the mutant of the task's effect on the run in which a failed call fails it
RunFailsWithEnrichment(failed) ==
  IF failed
  THEN /\ run' = [run EXCEPT !.result =
                    [done |-> TRUE, success |-> FALSE,
                     error |-> SUMMARY_FAILED]]
       /\ UNCHANGED <<pc, disabled>>
  ELSE UNCHANGED <<pc, run, disabled>>

\* what the task does to the run and its result: the task is detached (line
\* 149) and keeps its errors (lines 154, 211-215)
RunAfterEnrichment(failed) == UNCHANGED <<pc, run, disabled>>

CardsOnly ==
  /\ PlatformUnchanged
  /\ UNCHANGED <<sessions, organizedTabsData, enrich, req, resp, hist, cls,
                 life>>

\* how the extraction of one tab resolves (lines 156-176): the handler
\* answers with the body, answers with a refusal or an error, the send
\* rejects, or the 10 second timer of line 159 wins the race
ExtractAnswers == {"body", "refused", "error"}

\* the mutant of the race in which no timer runs
OutcomesForNoTimer(silent) == IF silent THEN {} ELSE ExtractAnswers

\* Promise.race of line 167: a request that is never answered is settled by
\* the timer alone
OutcomesFor(silent) ==
  IF silent THEN {"timeout"} ELSE ExtractAnswers \cup {"timeout"}

\* lines 169-175: the tab with the page's body, or the tab as it was
Resolved(card, tabId, outcome) ==
  [card EXCEPT !.waiting = @ \ {tabId},
               !.withBody = IF outcome = "body" THEN @ \cup {tabId} ELSE @]

\* lines 156-176: the extraction of one tab of the card resolves, to the
\* page's body or to the tab as it was
ExtractionResolves(name) ==
  /\ cards[name].phase = "extracting"
  /\ \E tabId \in cards[name].waiting :
       \E outcome \in OutcomesFor(tabId \in cards[name].silent) :
         cards' = [cards EXCEPT ![name] = Resolved(@, tabId, outcome)]
  /\ RunAfterEnrichment(FALSE)
  /\ CardsOnly

\* lines 178-185: Promise.all resolves once no extraction is outstanding, and
\* the task issues its two calls; what the calls return is drawn from
\* SummarizeOutcomes and WriteOutcomes whatever bodies their input carries
PromiseAllResolves(name) ==
  /\ cards[name].phase = "extracting"
  /\ cards[name].waiting = {}
  /\ cards' = [cards EXCEPT ![name] =
                 [@ EXCEPT !.phase = "generating",
                           !.withBody = {},
                           !.log = Append(@, "Generating summary and overview for")]]
  /\ RunAfterEnrichment(FALSE)
  /\ CardsOnly

\* the background never answers the request of one tab: the injected script
\* of part_001 line 296 does not settle
ExtractionHangs(name) ==
  /\ cards[name].phase = "extracting"
  /\ \E tabId \in cards[name].waiting \ cards[name].silent :
       cards' = [cards EXCEPT ![name].silent = @ \cup {tabId}]
  /\ RunAfterEnrichment(FALSE)
  /\ CardsOnly

\* summarizerSession.summarize settles
SummarizeSettles(name) ==
  /\ cards[name].phase = "generating"
  /\ cards[name].summary = Pending
  /\ \E outcome \in SummarizeOutcomes :
       LET failed == sessions.summarizer = NULL \/ outcome.kind = "reject"
       IN /\ cards' = [cards EXCEPT ![name] =
                         Settled([@ EXCEPT
                           !.summary = GenerateGroupSummary(sessions.summarizer,
                                                            outcome),
                           !.summarizeFailed = failed])]
          /\ RunAfterEnrichment(failed)
  /\ CardsOnly

\* writerSession.write settles
WriteSettles(name) ==
  /\ cards[name].phase = "generating"
  /\ cards[name].content = Pending
  /\ \E outcome \in WriteOutcomes :
       LET failed == sessions.writer = NULL \/ outcome.kind = "reject"
       IN /\ cards' = [cards EXCEPT ![name] =
                         Settled([@ EXCEPT
                           !.content = GenerateGroupContent(sessions.writer,
                                                            outcome),
                           !.writeFailed = failed])]
          /\ RunAfterEnrichment(failed)
  /\ CardsOnly

\* lines 156-185 in one step: every extraction of the card's tabs has
\* resolved, to the page's body or to the tab as it was, and the task issues
\* its two calls
ExtractionSettles(name) ==
  /\ cards[name].phase = "extracting"
  /\ cards[name].withBody = {}
  /\ cards' = [cards EXCEPT ![name] =
                 [@ EXCEPT !.phase = "generating",
                           !.waiting = {},
                           !.log = Append(@, "Generating summary and overview for")]]
  /\ RunAfterEnrichment(FALSE)
  /\ CardsOnly

Enrichment ==
  \E name \in DOMAIN cards :
    \/ ExtractionSettles(name)
    \/ SummarizeSettles(name)
    \/ WriteSettles(name)

\* the task with the extractions of its tabs resolving one at a time
EnrichmentByTab ==
  \E name \in DOMAIN cards :
    \/ ExtractionResolves(name)
    \/ ExtractionHangs(name)
    \/ PromiseAllResolves(name)
    \/ SummarizeSettles(name)
    \/ WriteSettles(name)

\* chrome.runtime.sendMessage rejects: no handler took the request
SendMessageRejects ==
  /\ pc = "awaitReply"
  /\ req # NoMsg
  /\ req' = NoMsg
  /\ EndRun(FALSE, TRANSPORT_ERROR)
  /\ hist' = Erred(hist, "sendMessage", TRANSPORT_ERROR)
  /\ PlatformUnchanged
  /\ UNCHANGED <<sessions, organizedTabsData, enrich, resp, cls, cards, life>>

PerformClusteringAndGrouping ==
  \/ StartClustering
  \/ RecvExistingGroups
  \/ RecvUngroupAll
  \/ RecvDedupe
  \/ RecvGetTabs
  \/ BatchIssue
  \/ \E j \in run.inflight : PromptSettles(j)
  \/ PartitionAndSend
  \/ RecvGroupTabs
  \/ SendMessageRejects

\* the user closes one of the tabs while the run is going on
UserClosesTab ==
  /\ pc \notin {"idle", "done"}
  /\ \E id \in doomed :
       /\ TabExists(tabs, id)
       /\ tabs' = RemoveTabs(tabs, {id})
       /\ tabGroups' = LiveGroups(tabs', tabGroups)
  /\ PanelUnchanged
  /\ UNCHANGED <<focused, reply, doomed, req, resp, gt, groupSeq, hist>>

Background ==
  \/ HandleGetExistingGroups
  \/ HandleUngroupAll
  \/ HandleDeduplicateTabs
  \/ HandleGetTabs
  \/ HandleGroupTabs

Next ==
  \/ Click
  \/ InitializeSessions
  \/ PerformClusteringAndGrouping
  \/ Background
  \/ UserFocusesPopup
  \/ UserClosesTab

----------------------------------------------------------------------------
(* The whole run: a click on the organise button over a window's tabs.    *)
(* The tabs are a few tabs of different kinds followed by a row of        *)
(* ordinary news pages.                                                   *)

NewsReply == Replies(<<JsonObj("News", <<"t">>)>>)

Kind(url, title, windowId, outcome, closes) ==
  [url |-> url, title |-> title, windowId |-> windowId, outcome |-> outcome,
   closes |-> closes]

\* a news page
NewsPage == Kind(UrlBbc, TitleAb, FocusedWindowId, NewsReply, FALSE)
\* a sports page; the model fences its JSON and gives no topic
SportsPage ==
  Kind(UrlEspn, TitleB, FocusedWindowId,
       Replies(<<Fence, Ws, JsonObj("Sports", <<>>), Ws, Fence>>), FALSE)
\* a news page in another window
ElsewherePage == Kind(UrlBbc, TitleB, OtherWindowId, NewsReply, FALSE)
\* a page the model labels with a word that is not in the prompt's list
GamingPage ==
  Kind(UrlEspn, TitleAb, FocusedWindowId,
       Replies(<<JsonObj("Gaming", <<"t">>)>>), FALSE)
\* a page the model answers in prose
ProsePage == Kind(UrlEspn, <<"m">>, FocusedWindowId, Replies(<<Prose>>), FALSE)
\* a page the model labels "constructor"
ConstructorPage ==
  Kind(UrlEspn, <<"p">>, FocusedWindowId,
       Replies(<<JsonObj("constructor", <<"t">>)>>), FALSE)
\* an internal page
InternalPage == Kind(UrlInternal, TitleAb, FocusedWindowId, NewsReply, FALSE)
\* a tab whose url starts with http and does not parse
UnparseablePage == Kind(UrlBad, TitleAb, FocusedWindowId, NewsReply, FALSE)
\* a news page the user closes during the run
DoomedPage == Kind(UrlBbc, <<"d">>, FocusedWindowId, NewsReply, TRUE)

Kinds ==
  <<NewsPage, SportsPage, ElsewherePage, GamingPage, ProsePage,
    ConstructorPage, InternalPage, UnparseablePage, DoomedPage>>

\* the members of S, a set of numbers, in ascending order
RECURSIVE Ascending(_)
Ascending(S) ==
  IF S = {} THEN <<>>
  ELSE LET least == CHOOSE x \in S : \A y \in S : x <= y
       IN <<least>> \o Ascending(S \ {least})

\* the rows of at most n different kinds, in the order of Kinds
Prefixes(n) ==
  {[k \in 1..Cardinality(S) |-> Kinds[Ascending(S)[k]]] :
     S \in {T \in SUBSET (1..Len(Kinds)) : Cardinality(T) <= n}}

DigitChars == <<"0", "1", "2", "3", "4", "5", "6", "7", "8", "9">>

RECURSIVE Digits(_)
Digits(j) ==
  IF j < 10 THEN <<DigitChars[j + 1]>>
  ELSE Digits(j \div 10) \o <<DigitChars[(j % 10) + 1]>>

\* the title of the j-th ordinary news page
FillerTitle(j) == <<"f">> \o Digits(j)

\* the open tabs: the pages of `prefix`, then m news pages; ids count from 1;
\* with `grouped` the first tab is in a group made earlier
WindowTabs(prefix, m, grouped) ==
  [k \in 1..(Len(prefix) + m) |->
     IF k <= Len(prefix)
     THEN Tab(k, prefix[k].url, prefix[k].title, prefix[k].windowId,
              IF grouped /\ k = 1 THEN 1 ELSE NoGroup)
     ELSE Tab(k, UrlBbc, FillerTitle(k - Len(prefix)), FocusedWindowId,
              IF grouped /\ k = 1 THEN 1 ELSE NoGroup)]

WindowReplies(prefix, m) ==
  [k \in 1..(Len(prefix) + m) |->
     IF k <= Len(prefix) THEN prefix[k].outcome ELSE NewsReply]

WindowDoomed(prefix) == {k \in 1..Len(prefix) : prefix[k].closes}

InitWindow(prefixes, fills, groupeds) ==
  /\ \E prefix \in prefixes, m \in fills, grouped \in groupeds :
       /\ grouped => Len(prefix) + m > 0
       /\ tabs = WindowTabs(prefix, m, grouped)
       /\ reply = WindowReplies(prefix, m)
       /\ doomed = WindowDoomed(prefix)
       /\ tabGroups = IF grouped THEN {NewGroup(1, "Old")} ELSE {}
       /\ groupSeq = IF grouped THEN 1 ELSE 0
  /\ focused = [id |-> FocusedWindowId, type |-> "normal"]
  /\ PanelAtRest
  /\ gt = IdleGt
  /\ cls = IdleCls
  /\ cards = NoCards
  /\ life = NewLife

Init ==
  InitWindow(Prefixes(MaxPrefix), {0, ENRICH_MIN - 1, ENRICH_MIN}, BOOLEAN)

Spec == Init /\ [][Next]_vars

\* The same run over a window of an internal page, in a group made earlier,
\* and about MAX_TABS news pages.  No tab is closed during the run.
InitCap ==
  InitWindow({<<InternalPage>>}, (MAX_TABS - 1)..(MAX_TABS + CapOver), {TRUE})

NextCap ==
  \/ Click
  \/ InitializeSessions
  \/ PerformClusteringAndGrouping
  \/ Background
  \/ UserFocusesPopup

SpecCap == InitCap /\ [][NextCap]_vars

\* The run followed by the tasks that fill the cards of the groups made:
\* they are started by the rendering of the results and nothing awaits them.
InitEnrich ==
  InitWindow(Prefixes(MaxEnrichPrefix), {ENRICH_MIN - 1, ENRICH_MIN}, BOOLEAN)

NextEnrich ==
  \/ Click
  \/ InitializeSessions
  \/ PerformClusteringAndGrouping
  \/ Enrichment
  \/ Background
  \/ UserFocusesPopup
  \/ UserClosesTab

SpecEnrich == InitEnrich /\ [][NextEnrich]_vars

----------------------------------------------------------------------------
(* The run when every call it awaits settles: the availability probes,    *)
(* the create() calls, the messages to the service worker and the prompts *)
(* resolve or reject, and the service worker answers the requests it has  *)
(* taken.                                                                  *)

InitFair == InitWindow(Prefixes(MaxFairPrefix), {MaxFairPrefix}, BOOLEAN)

\* the steps of the run and of the service worker
RunSteps ==
  \/ InitializeSessions
  \/ PerformClusteringAndGrouping
  \/ Background

SpecFair == InitFair /\ [][Next]_vars /\ WF_vars(RunSteps)

----------------------------------------------------------------------------
(* The lifetime of the page: clicks on the organise button over a window  *)
(* of a few news pages, until the page is unloaded.                       *)

InitLife == InitWindow({<<>>}, 1..MaxLifeTabs, {FALSE})

NextLife ==
  \/ Click
  \/ ClickAgain
  \/ InitializeSessions
  \/ PerformClusteringAndGrouping
  \/ Background
  \/ BeforeUnload

SpecLife == InitLife /\ [][NextLife]_vars

----------------------------------------------------------------------------
(* cleanupSessions on its own: every combination of held and unset        *)
(* handles, of handles whose destroy() raises, and repeated calls.        *)

\* the handle held for the c-th capability if it was created
\* The acquisition of the sessions with the download events of the platform,
\* in a run over a window of one or two news pages
InitAcquire == InitWindow({<<>>}, {1}, BOOLEAN)

NextAcquire ==
  \/ Click
  \/ InitializeSessions
  \/ \E c \in 1..Len(Capabilities) : DownloadProgress(Capabilities[c])
  \/ PerformClusteringAndGrouping
  \/ Background

SpecAcquire == InitAcquire /\ [][NextAcquire]_vars

\* The partitioning on its own: the classifications of up to MaxPartitionTabs
\* tabs, each with one of the labels a reply can hold
PartitionLabels == {"News", "Sports", "7", "10"}

ClassifiedAs(labels) ==
  [k \in 1..Len(labels) |->
     [tabId |-> k, url |-> UrlBbc, title |-> FillerTitle(k),
      label |-> labels[k], topic |-> <<"t">>]]

InitPartition ==
  /\ \E n \in 1..MaxPartitionTabs : \E labels \in [1..n -> PartitionLabels] :
       /\ tabs = [k \in 1..n |->
                    Tab(k, UrlBbc, FillerTitle(k), FocusedWindowId, NoGroup)]
       /\ run = [IdleRun EXCEPT !.path = "direct", !.tabs = tabs, !.i = n,
                                !.classified = ClassifiedAs(labels)]
       /\ reply = [k \in 1..n |-> NewsReply]
  /\ tabGroups = {}
  /\ focused = [id |-> FocusedWindowId, type |-> "normal"]
  /\ doomed = {}
  /\ groupSeq = 0
  /\ sessions = NoSessions
  /\ disabled = FALSE
  /\ pc = "classify"
  /\ organizedTabsData = <<>>
  /\ enrich = {}
  /\ req = NoMsg
  /\ resp = NoMsg
  /\ hist = IdleHist
  /\ gt = IdleGt
  /\ cls = IdleCls
  /\ cards = NoCards
  /\ life = NewLife

NextPartition == PartitionAndSend

SpecPartition == InitPartition /\ [][NextPartition]_vars

\* the pages of the windows the pipeline is run on twice: two of them may be
\* the same page, which makes them duplicates
RerunKinds == {NewsPage, SportsPage}

RerunWindows == UNION {[1..n -> RerunKinds] : n \in 1..MaxRerunTabs}

InitRerun == InitWindow(RerunWindows, {0}, {FALSE})

NextRerun ==
  \/ Click
  \/ ClickAgain
  \/ InitializeSessions
  \/ PerformClusteringAndGrouping
  \/ Background

SpecRerun == InitRerun /\ [][NextRerun]_vars

HandleOf(c, created) == IF Capabilities[c] \in created THEN c ELSE NULL

InitCleanup ==
  /\ \E created \in SUBSET {Capabilities[c] : c \in 1..Len(Capabilities)} :
       /\ sessions = [languageModel |-> HandleOf(1, created),
                      writer |-> HandleOf(2, created),
                      summarizer |-> HandleOf(3, created)]
       /\ \E faulty \in SUBSET {c \in 1..Len(Capabilities) :
                                   Capabilities[c] \in created} :
            life = [NewLife EXCEPT
                      !.made = SelectSeq([c \in 1..Len(Capabilities) |->
                                            [cap |-> Capabilities[c],
                                             id |-> HandleOf(c, created)]],
                                         LAMBDA m : m.id # NULL),
                      !.faulty = faulty]
  /\ PlatformEmpty
  /\ disabled = FALSE
  /\ pc = "idle"
  /\ run = IdleRun
  /\ organizedTabsData = <<>>
  /\ enrich = {}
  /\ req = NoMsg
  /\ resp = NoMsg
  /\ hist = IdleHist
  /\ gt = IdleGt
  /\ cls = IdleCls
  /\ cards = NoCards

\* cleanupSessions is exported: a caller calls it, any number of times
CallCleanupSessions ==
  /\ Len(life.cleanups) < MaxCleanups
  /\ CleanupSessions
  /\ PlatformUnchanged
  /\ UNCHANGED <<disabled, pc, run, organizedTabsData, enrich, req, resp,
                 hist, cls, cards>>

NextCleanup == CallCleanupSessions

SpecCleanup == InitCleanup /\ [][NextCleanup]_vars

----------------------------------------------------------------------------
(* The claims *)

\* C1: whatever the reply of the model, the label classifyTab returns, and
\* the label a tab has when it is partitioned, is one of the categories
C1_ReturnedLabelInCategories ==
  /\ (cls.called /\ ~cls.ret.threw) => cls.ret.label \in CATEGORIES
  /\ \A k \in 1..Len(run.classified) :
       run.classified[k].label \in CATEGORIES

\* C2: classifyTab never throws and always returns a label, whatever the
\* session, the reply or the call error
C2_NeverThrows ==
  cls.called => (~cls.ret.threw /\ cls.ret.label # "")

\* C2 as amended: with a session, classifyTab returns a pair with a label
\* whatever the reply or the call error; without one it throws
\* 'Language model session not available'
C2_ThrowsOnlyWithoutSession ==
  cls.called =>
    IF cls.session = NULL
    THEN cls.ret.threw /\ cls.ret.error = SESSION_MISSING
    ELSE ~cls.ret.threw /\ cls.ret.label # ""

C2_Witness ==
  /\ cls.called
  /\ cls.session # NULL
  /\ cls.outcome.kind = "reject"
  /\ cls.ret.label = "Other"

\* the run has partitioned its classified tabs and sent the groups
Partitioned == \E k \in 1..Len(hist.sent) : hist.sent[k] = "GROUP_TABS"

NoRepeats(q) == Cardinality(SeqToSet(q)) = Len(q)

\* C3: the partitions are pairwise disjoint and cover the classified tabs:
\* every classified tab is in exactly one partition, once, and its id is in
\* exactly one group's tabIds of the GROUP_TABS request, once; the partitions
\* and the groups hold nothing else, and the classified tabs are the working
\* set
C3_PartitionsDisjointAndCover ==
  Partitioned =>
    /\ Len(run.classified) = Len(run.tabs)
    /\ \A i \in 1..Len(run.classified) :
         /\ run.classified[i].tabId = run.tabs[i].id
         /\ Cardinality({k \in 1..Len(run.clusters) :
                           (i - 1) \in SeqToSet(run.clusters[k].items)}) = 1
         /\ Cardinality({k \in 1..Len(run.groups) :
                           run.classified[i].tabId
                             \in SeqToSet(run.groups[k].tabIds)}) = 1
    /\ Len(run.groups) = Len(run.clusters)
    /\ \A k \in 1..Len(run.clusters) :
         /\ NoRepeats(run.clusters[k].items)
         /\ SeqToSet(run.clusters[k].items) \subseteq 0..(Len(run.classified) - 1)
         /\ \A idx \in SeqToSet(run.clusters[k].items) :
              run.classified[idx + 1].label = run.clusters[k].name
         /\ run.groups[k].name = run.clusters[k].name
         /\ NoRepeats(run.groups[k].tabIds)
         /\ run.groups[k].tabIds
              = [m \in 1..Len(run.clusters[k].items) |->
                   run.classified[run.clusters[k].items[m] + 1].tabId]
    /\ req.type = "GROUP_TABS" => req.groups = run.groups
    /\ hist.grouping.ran => hist.grouping.groups = run.groups

\* a finished run over seven tabs in three partitions
C3_Witness ==
  /\ pc = "done"
  /\ run.result.success
  /\ Len(run.classified) = ENRICH_MIN + 2
  /\ Len(run.clusters) = 3
  /\ Len(run.clusters[3].items) = ENRICH_MIN

\* the (hostname, lowercased and trimmed title) key of a tab
PairKey(tab) == <<Hostname(tab.url), Trim(ToLowerCase(tab.title))>>

\* the input tabs of the last dedupe whose scheme is http or https and whose
\* url parses
DedupeCandidates ==
  {k \in 1..Len(hist.dedupe.input) :
     /\ IsHttpUrl(hist.dedupe.input[k].url)
     /\ UrlParses(hist.dedupe.input[k].url)}

\* C4: after handleDeduplicateTabs the tabs it kept have pairwise distinct
\* (hostname, lowercased-trimmed-title) keys, and closed + kept is the number
\* of input tabs with an http/https scheme and a url that parses
C4_DedupeKeepsOnePerKey ==
  hist.dedupe.ran =>
    /\ \A a, b \in SeqToSet(hist.dedupe.seen) :
         a # b => PairKey(TabById(hist.dedupe.input, a))
                    # PairKey(TabById(hist.dedupe.input, b))
    /\ Len(hist.dedupe.toClose) + Len(hist.dedupe.seen)
         = Cardinality(DedupeCandidates)

\* the first min(N, MAX_TABS) of the N valid tabs the platform returned
FirstValid == SubSeq(hist.valid, 1, Min(Len(hist.valid), MAX_TABS))

FirstValidIds == {FirstValid[k].id : k \in 1..Len(FirstValid)}

\* C5: of N valid tabs the working set is the first min(N, MAX_TABS), and no
\* other tab is passed to classifyTab, put in a partition or sent in a
\* GROUP_TABS request; a run that succeeds has classified all of them
C5_WorkingSetCapped ==
  hist.read =>
    LET ids == FirstValidIds
        In(groups) ==
          \A k \in 1..Len(groups) : SeqToSet(groups[k].tabIds) \subseteq ids
    IN /\ Len(run.tabs) = Min(Len(hist.valid), MAX_TABS)
       /\ run.tabs = FirstValid
       /\ SeqToSet(hist.prompted) \subseteq ids
       /\ \A k \in 1..Len(run.classified) : run.classified[k].tabId \in ids
       /\ \A k \in 1..Len(run.clusters) :
            SeqToSet(run.clusters[k].items) \subseteq 0..(Len(run.tabs) - 1)
       /\ In(run.groups)
       /\ req.type = "GROUP_TABS" => In(req.groups)
       /\ hist.grouping.ran => In(hist.grouping.groups)
       /\ (pc = "done" /\ run.result.success) =>
            /\ SeqToSet(hist.prompted) = ids
            /\ Len(run.classified) = Min(Len(hist.valid), MAX_TABS)

\* a finished run over MAX_TABS + 1 valid tabs
C5_Witness ==
  /\ pc = "done"
  /\ run.result.success
  /\ Len(hist.valid) = MAX_TABS + 1
  /\ Len(run.classified) = MAX_TABS
  /\ Len(hist.prompted) = MAX_TABS
  /\ hist.valid[MAX_TABS + 1].id \notin SeqToSet(hist.prompted)

\* C6: enrichment is started for a partition if and only if the number of
\* tabs placed in its group is at least ENRICH_MIN
C6_EnrichmentIffRealizedFive ==
  (pc = "done" /\ run.result.success) =>
    \A k \in 1..Len(run.groupResults) :
      (run.groupResults[k].name \in enrich)
        <=> (run.groupResults[k].count >= ENRICH_MIN)

\* C7: when the creation of a session fails, no later session is created and
\* none is created twice, the run has failed with the creation's error, and
\* no step of the pipeline has run: no request was sent, no group ungrouped,
\* no tab closed by the dedupe, read, classified or grouped
C7_SessionFailureAborts ==
  hist.initFailed \in SeqToSet(Capabilities) =>
    /\ \E n \in 1..Len(Capabilities) :
         /\ Capabilities[n] = hist.initFailed
         /\ hist.created = SubSeq(Capabilities, 1, n)
         /\ \A c \in n..Len(Capabilities) : sessions[Capabilities[c]] = NULL
    /\ pc = "done"
    /\ run.result = [done |-> TRUE, success |-> FALSE, error |-> CREATE_ERROR]
    /\ ~disabled
    /\ hist.sent = <<>>
    /\ req = NoMsg
    /\ resp = NoMsg
    /\ ~hist.dedupe.ran
    /\ ~hist.grouping.ran
    /\ ~hist.read
    /\ hist.prompted = <<>>
    /\ run.classified = <<>>
    /\ run.groups = <<>>
    /\ ~gt.active
    /\ enrich = {}

\* the writer's creation failed after the language model's, on the path that
\* disables the button, over a window with tabs and a group
C7_Witness ==
  /\ pc = "done"
  /\ hist.initFailed = "writer"
  /\ hist.created = <<"languageModel", "writer">>
  /\ sessions.languageModel # NULL
  /\ run.path = "sequential"
  /\ Len(tabs) >= ENRICH_MIN
  /\ tabGroups # {}

\* the steps C8 is about
PreEnrichmentSteps ==
  {"UNGROUP_ALL", "DEDUPLICATE_TABS", "GET_TABS", "extract", "classify",
   "partition", "GROUP_TABS"}

ErrorsOfRun ==
  SelectSeq(hist.errors, LAMBDA e : e.step \in PreEnrichmentSteps)

\* C8: a run in which a pre-enrichment step met an error, an error response
\* of a background handler included, ends failed, with the message of that
\* error
C8_FailedWithCausingError ==
  (run.result.done /\ ErrorsOfRun # <<>>) =>
    /\ ~run.result.success
    /\ run.result.error = ErrorsOfRun[1].message

\* C9: a partition's error is recorded for that partition only: the results
\* handleGroupTabs sends hold one entry per partition of the request, in the
\* request's order and with its names, whatever failed on the way
C9_OneResultPerPartition ==
  /\ gt.active =>
       /\ Len(gt.results) = gt.idx - 1
       /\ \A k \in 1..Len(gt.results) : gt.results[k].name = gt.groups[k].name
  /\ (resp.type = "GROUP_TABS" /\ resp.ok) =>
       /\ Len(resp.results) = Len(hist.grouping.groups)
       /\ \A k \in 1..Len(resp.results) :
            resp.results[k].name = hist.grouping.groups[k].name

\* a request whose first partition failed and whose last one was grouped
C9_Witness ==
  /\ resp.type = "GROUP_TABS"
  /\ resp.ok
  /\ resp.results[1].error = PLATFORM_ERROR
  /\ resp.results[2].error = NO_TABS
  /\ resp.results[3].error = ""
  /\ resp.results[3].count = 2

\* the partitions of the last GROUP_TABS request none of whose tab ids was an
\* open tab of the focused window when the handler started
StalePartition(k) ==
  /\ hist.grouping.groups[k].tabIds # <<>>
  /\ \A id \in SeqToSet(hist.grouping.groups[k].tabIds) :
       \/ ~TabExists(hist.grouping.tabs, id)
       \/ TabById(hist.grouping.tabs, id).windowId # FocusedWindowId

\* the partitions before k for which the platform made a group
GroupsMadeBefore(k) ==
  {j \in 1..(k - 1) : hist.grouping.at[j] \in {"none", "update", "get"}}

\* the open tabs of the focused window among partition k's ids
SurvivorsOf(k) ==
  {id \in SeqToSet(hist.grouping.groups[k].tabIds) :
     /\ TabExists(hist.grouping.tabs, id)
     /\ TabById(hist.grouping.tabs, id).windowId = FocusedWindowId}

\* C10: a partition none of whose tabs resolves gets the failure
\* "No valid tabs in current window" with count 0 and no group, and the other
\* partitions' results do not depend on it: each grouped partition counts its
\* own surviving tabs and has the colour of the next group after those made
\* for the partitions before it, the stale ones not counted
C10_StalePartitionFailsAlone ==
  (resp.type = "GROUP_TABS" /\ resp.ok) =>
    \A k \in 1..Len(resp.results) :
      /\ StalePartition(k) =>
           /\ resp.results[k]
                = GroupFailure(hist.grouping.groups[k].name, NO_VALID_TABS)
           /\ hist.grouping.at[k] = "skipped"
           /\ \A j \in 1..Len(tabs) :
                tabs[j].id \in SeqToSet(hist.grouping.groups[k].tabIds)
                  => tabs[j].groupId = NoGroup
      /\ (~StalePartition(k) /\ resp.results[k].error = "") =>
           /\ resp.results[k].count = Cardinality(SurvivorsOf(k))
           /\ resp.results[k].color
                = ColorOf(hist.grouping.groupSeq
                            + Cardinality(GroupsMadeBefore(k)) + 1)
      /\ Cardinality(tabGroups)
           = Cardinality(GroupsMadeBefore(Len(resp.results) + 1))

\* a request whose first partition is stale (one tab closed, one in another
\* window) and whose second partition becomes the first group made
C10_Witness ==
  /\ resp.type = "GROUP_TABS"
  /\ resp.ok
  /\ StalePartition(1)
  /\ Len(hist.grouping.groups[1].tabIds) = 2
  /\ \E id \in SeqToSet(hist.grouping.groups[1].tabIds) :
       ~TabExists(hist.grouping.tabs, id)
  /\ \E id \in SeqToSet(hist.grouping.groups[1].tabIds) :
       TabExists(hist.grouping.tabs, id)
  /\ resp.results[1].error = NO_VALID_TABS
  /\ resp.results[2].error = ""
  /\ resp.results[2].color = ColorOf(1)


\* the run has returned success to the click handler
Succeeded == run.result.done /\ run.result.success

\* C11: once the groups have been made the run's result is success and stays
\* success: the cards' tasks start only with the result already returned, and
\* no step after it, a failed summarize or write call included, changes the
\* result or the handler's position.
C11_SuccessStaysSuccess ==
  /\ [](cards # NoCards => Succeeded /\ pc = "done")
  /\ [][Succeeded => run'.result = run.result /\ pc' = pc]_vars

\* a succeeded run with a card whose two calls both failed
C11_Witness ==
  /\ Succeeded
  /\ \E name \in DOMAIN cards :
       /\ cards[name].phase = "shown"
       /\ cards[name].summarizeFailed
       /\ cards[name].writeFailed


\* the ids of the tabs of a list
IdsIn(list) == {list[k].id : k \in 1..Len(list)}

\* C12: the GROUP_TABS request is sent only with every batch completed: no
\* classifyTab call is in flight, every tab of the working set has been
\* prompted for and has its classification.  The cards' tasks exist only with
\* handleGroupTabs finished and a result for every partition received.
C12_StagesInOrder ==
  /\ Partitioned =>
       /\ run.inflight = {}
       /\ Len(run.classified) = Len(run.tabs)
       /\ SeqToSet(hist.prompted) = IdsIn(run.tabs)
  /\ cards # NoCards =>
       /\ Partitioned
       /\ gt = IdleGt
       /\ resp = NoMsg
       /\ Len(run.groupResults) = Len(run.groups)
       /\ Len(run.groups) > 0

\* a run of two batches whose groups were made and whose card is filled
C12_Witness ==
  /\ Len(run.tabs) > BATCH_SIZE
  /\ Partitioned
  /\ \E name \in DOMAIN cards : cards[name].phase = "shown"


\* C13: at most BATCH_SIZE classifyTab calls are in flight, all of them of
\* the one batch after the tabs already classified; the tabs prompted for and
\* not yet classified are at most one batch, so a batch is issued only with
\* the batch before it completed.
C13_AtMostOneBatchInFlight ==
  /\ Cardinality(run.inflight) <= BATCH_SIZE
  /\ \A j \in run.inflight :
       /\ Len(run.classified) < j
       /\ j <= Len(run.classified) + BATCH_SIZE
       /\ j <= Len(run.tabs)
  /\ Len(hist.prompted) - Len(run.classified) <= BATCH_SIZE
  /\ run.inflight # {} => Len(hist.prompted) > Len(run.classified)

\* a full batch in flight with tabs left for the next one
C13_Witness ==
  /\ Cardinality(run.inflight) = BATCH_SIZE
  /\ Len(run.tabs) > BATCH_SIZE
  /\ Len(run.classified) = 0


\* the click handler is between its start and its end
RunActive == pc \notin {"idle", "done"}

MadeFor(cap) == {k \in 1..Len(life.made) : life.made[k].cap = cap}

\* C15: each of the three session handles is created at most once in the
\* lifetime of the page: initializeSessions does not create again a session
\* that is held.
C15_CreatedAtMostOnce ==
  \A c \in 1..Len(Capabilities) : Cardinality(MadeFor(Capabilities[c])) <= 1

\* C16: once cleanupSessions has run on the unload of the page, destroy() has
\* been called on every handle made since the page was loaded.
C16_AllMadeDestroyedOnUnload ==
  pc = "unloaded" =>
    \A k \in 1..Len(life.made) : life.made[k].id \in SeqToSet(life.destroyed)

\* the handles held in a sessions object
HeldIn(held) == {held[cap] : cap \in DOMAIN held} \ {NULL}

C18_FailuresShownAndLogged ==
  \A name \in DOMAIN cards :
    LET card == cards[name]
    IN card.phase = "shown" =>
         /\ card.summarizeFailed =>
              /\ card.summaryText = SUMMARY_UNAVAILABLE
              /\ "Summary generation failed for" \in SeqToSet(card.log)
         /\ card.writeFailed =>
              /\ card.content = Null
              /\ card.contentText = CONTENT_UNAVAILABLE
              /\ "Overview generation failed for" \in SeqToSet(card.log)
         /\ ~card.summarizeFailed /\ Truthy(card.summary) =>
              card.summaryText = card.summary.s
         /\ ~card.writeFailed => card.contentText = card.content.s


\* the working set holds a tab whose URL cannot be parsed
HasUnparseable == \E k \in 1..Len(run.tabs) : ~UrlParses(run.tabs[k].url)

\* C19: a tab of the working set whose URL cannot be parsed does not make
\* the run fail: no run ends with the error of parsing a URL.
C19_UnparseableUrlNeverFailsRun ==
  run.result.done /\ HasUnparseable =>
    /\ run.result.error # INVALID_URL
    /\ \A k \in 1..Len(hist.errors) : hist.errors[k].step # "extract"


\* an entry of the list of results is a success or a failure with a message
EntryOk(entry) ==
  \/ entry.error = "" /\ entry.count > 0
  \/ entry.error # "" /\ entry.count = 0

\* the run has returned the list of results, one entry for each partition
EndedWithList ==
  /\ run.result.success
  /\ Len(run.groupResults) = Len(run.groups)
  /\ \A k \in 1..Len(run.groupResults) :
       /\ run.groupResults[k].name = run.groups[k].name
       /\ EntryOk(run.groupResults[k])

\* the run has returned a failure with its message and no list of results
EndedFailed ==
  /\ ~run.result.success
  /\ run.result.error # ""
  /\ run.groupResults = <<>>

FirstChars(s, n) == [i \in 1..(IF Len(s) < n THEN Len(s) ELSE n) |-> s[i]]

\* the title of the tab, or 'Unknown' for a tab without one
TitleOrUnknown == IF cls.tabMeta.title = <<>> THEN UNKNOWN ELSE cls.tabMeta.title

\* classifyTab has been called with a session and session.prompt rejected
PromptFailed == cls.called /\ cls.session # NULL /\ cls.outcome.kind = "reject"

\* classifyTab has been called with a session and the reply, its code fences
\* and outer white space taken off, is not the text of a JSON value
ReplyUnparseable ==
  /\ cls.called
  /\ cls.session # NULL
  /\ cls.outcome.kind = "text"
  /\ ~JSONParse(TrimTokens(StripFences(cls.outcome.raw))).ok

\* C22: when session.prompt itself fails, classifyTab returns the label
\* "Other" and as topic the title, or 'Unknown' for an empty title, cut to
\* TOPIC_MAX (60) characters.
C22_CallErrorFallbackSixty ==
  PromptFailed =>
    /\ ~cls.ret.threw
    /\ cls.ret.label = "Other"
    /\ cls.ret.topic = FirstChars(TitleOrUnknown, TOPIC_MAX)

\* C23 as stated: when the reply cannot be parsed as JSON, classifyTab
\* returns the label "Other" and as topic the title cut to 40 characters.
C23_ParseFailureFallbackForty ==
  ReplyUnparseable =>
    /\ ~cls.ret.threw
    /\ cls.ret.label = "Other"
    /\ cls.ret.topic = FirstChars(cls.tabMeta.title, TOPIC_MAX_ON_ERROR)

\* C23: when the reply cannot be parsed as JSON, classifyTab returns the
\* label "Other" and as topic the title, or 'Unknown' for an empty title, cut
\* to TOPIC_MAX (60) characters.
C23_ParseFailureFallbackSixty ==
  ReplyUnparseable =>
    /\ ~cls.ret.threw
    /\ cls.ret.label = "Other"
    /\ cls.ret.topic = FirstChars(TitleOrUnknown, TOPIC_MAX)

\* a reply in prose for a tab whose title is longer than TOPIC_MAX
C23_Witness ==
  /\ ReplyUnparseable
  /\ Len(cls.tabMeta.title) > TOPIC_MAX
  /\ Len(cls.ret.topic) = TOPIC_MAX


\* the places in the input of the last dedupe of the tabs its loop keys: the
\* tabs that pass the validity filter and whose url parses
Observed ==
  {k \in 1..Len(hist.dedupe.input) :
     /\ IsValidTab(hist.dedupe.input[k])
     /\ UrlParses(hist.dedupe.input[k].url)}

\* no observed tab before the k-th input tab has its key
FirstWithKey(k) ==
  \A j \in Observed :
    j < k => PairKey(hist.dedupe.input[j]) # PairKey(hist.dedupe.input[k])

\* C27: of the tabs handleDeduplicateTabs keys, the first with a key, in
\* platform order, is kept and stays open, and every later tab with that key
\* is closed; every key of a tab open before has a tab open after.
C27_FirstKeptLaterClosed ==
  hist.dedupe.ran =>
    /\ \A k \in Observed :
         LET id == hist.dedupe.input[k].id
         IN IF FirstWithKey(k)
            THEN /\ TabExists(tabs, id)
                 /\ id \in SeqToSet(hist.dedupe.seen)
                 /\ id \notin SeqToSet(hist.dedupe.toClose)
            ELSE /\ ~TabExists(tabs, id)
                 /\ id \in SeqToSet(hist.dedupe.toClose)
    /\ \A k \in 1..Len(hist.dedupe.input) :
         UrlParses(hist.dedupe.input[k].url) =>
           \E j \in 1..Len(tabs) :
             /\ UrlParses(tabs[j].url)
             /\ PairKey(tabs[j]) = PairKey(hist.dedupe.input[k])

\* three tabs of one key, the titles differing in case and outer spaces: the
\* first is left
C27_Witness ==
  /\ hist.dedupe.ran
  /\ Len(hist.dedupe.input) = 3
  /\ hist.dedupe.input[1].title # hist.dedupe.input[2].title
  /\ Len(hist.dedupe.toClose) = 2
  /\ Len(tabs) = 1
  /\ tabs[1].id = 1

\* the places in the input of the last dedupe of the tabs whose scheme is not
\* http or https or whose url does not parse
Unkeyable ==
  {k \in 1..Len(hist.dedupe.input) :
     \/ ~IsHttpUrl(hist.dedupe.input[k].url)
     \/ ~UrlParses(hist.dedupe.input[k].url)}

\* C28: handleDeduplicateTabs leaves open every tab whose scheme is not http
\* or https or whose url does not parse, and neither keeps its key nor puts
\* it in toClose; the tabs after such a tab are deduplicated all the same: a
\* keyed tab with the key of an earlier keyed tab is closed.
C28_UnkeyableTabsUntouched ==
  hist.dedupe.ran =>
    /\ \A k \in Unkeyable :
         LET id == hist.dedupe.input[k].id
         IN /\ TabExists(tabs, id)
            /\ id \notin SeqToSet(hist.dedupe.seen)
            /\ id \notin SeqToSet(hist.dedupe.toClose)
    /\ resp.type = "DEDUPLICATE_TABS" =>
         /\ resp.ok
         /\ resp.closed = Len(hist.dedupe.input) - Len(tabs)
    /\ \A k \in Observed :
         (\E b \in Unkeyable : b < k) /\ ~FirstWithKey(k) =>
           ~TabExists(tabs, hist.dedupe.input[k].id)

\* a tab whose url does not parse, then two tabs of one key: the request
\* succeeds and the second of the two is closed
C28_Witness ==
  /\ hist.dedupe.ran
  /\ resp.type = "DEDUPLICATE_TABS"
  /\ resp.ok
  /\ Len(hist.dedupe.input) = 3
  /\ hist.dedupe.input[1].url = UrlBad
  /\ hist.dedupe.toClose = <<3>>
  /\ Len(tabs) = 2


\* the results handleGroupTabs has pushed so far for the last request
ResultsSoFar ==
  IF gt.active THEN gt.results
  ELSE IF resp.type = "GROUP_TABS" /\ resp.ok THEN resp.results ELSE <<>>

\* the id of the group the platform made for partition k
GroupIdOf(k) == hist.grouping.groupSeq + Cardinality(GroupsMadeBefore(k)) + 1

\* C30: every group handleGroupTabs made holds only tabs that chrome.tabs.get
\* found in the last-focused window: a tab in a group of this request is a
\* surviving tab of the partition the group was made for, a tab of another
\* window is in no group, and each success result counts the surviving tabs
\* of its partition, at least one
C30_OnlyCheckedTabsGrouped ==
  hist.grouping.ran =>
    /\ \A j \in 1..Len(tabs) :
         tabs[j].groupId > hist.grouping.groupSeq =>
           /\ tabs[j].windowId = FocusedWindowId
           /\ \E k \in 1..Len(hist.grouping.at) :
                /\ hist.grouping.at[k] \in {"none", "update", "get"}
                /\ tabs[j].groupId = GroupIdOf(k)
                /\ tabs[j].id \in SurvivorsOf(k)
    /\ \A j \in 1..Len(tabs) :
         tabs[j].windowId # FocusedWindowId => tabs[j].groupId = NoGroup
    /\ \A k \in 1..Len(ResultsSoFar) :
         ResultsSoFar[k].error = "" =>
           /\ ResultsSoFar[k].count = Cardinality(SurvivorsOf(k))
           /\ ResultsSoFar[k].count >= 1

\* a partition of three ids, one closed, one in another window and one in the
\* focused window, grouped with count 1
C30_Witness ==
  /\ resp.type = "GROUP_TABS"
  /\ resp.ok
  /\ \E k \in 1..Len(resp.results) :
       /\ Len(hist.grouping.groups[k].tabIds) = 3
       /\ \E id \in SeqToSet(hist.grouping.groups[k].tabIds) :
            ~TabExists(hist.grouping.tabs, id)
       /\ \E id \in SeqToSet(hist.grouping.groups[k].tabIds) :
            /\ TabExists(tabs, id)
            /\ TabById(tabs, id).windowId = OtherWindowId
            /\ TabById(tabs, id).groupId = NoGroup
       /\ resp.results[k].error = ""
       /\ resp.results[k].count = 1
       /\ \E j \in 1..Len(tabs) : tabs[j].groupId = GroupIdOf(k)


\* the run has handled the reply to GET_EXISTING_GROUPS
ExistingGroupsHandled == hist.existing.queried /\ Len(hist.sent) >= 2

UngroupIssued == "UNGROUP_ALL" \in SeqToSet(hist.sent)

\* C25: a run sends UNGROUP_ALL exactly when the platform had at least one
\* group at the time handleGetExistingGroups looked
C25_UngroupIffGroupExisted ==
  ExistingGroupsHandled => (UngroupIssued <=> hist.existing.groups # {})

\* C26: with the run ended in success no group that the platform had when
\* the run asked for the existing groups still has a tab in it
C26_NoOldGroupSurvives ==
  (Succeeded /\ hist.existing.queried) =>
    \A g \in tabGroups :
      g.id \in hist.existing.groups =>
        ~ \E k \in 1..Len(tabs) : tabs[k].groupId = g.id


\* the labels of a run's partitions, each with the set of its member tabs
Structure(groups) ==
  {<<groups[k].name, SeqToSet(groups[k].tabIds)>> : k \in 1..Len(groups)}

\* the run that has just ended in success is the second of two successful
\* runs, and it has had the groups it found ungrouped
SecondRunEnded ==
  /\ life.clicks = 2
  /\ Succeeded
  /\ life.past[1].success
  /\ hist.existing.queried
  /\ hist.existing.groups # {} =>
       /\ UngroupIssued
       /\ \A k \in 1..Len(hist.errors) : hist.errors[k].step # "UNGROUP_ALL"

\* C21: the second of two runs in a row makes the partitions the first made,
\* the same labels with the same member tabs, and closes no tab
C21_SecondRunSamePartitions ==
  SecondRunEnded =>
    /\ Structure(run.groups) = Structure(life.past[1].groups)
    /\ hist.dedupe.toClose = <<>>

\* the ids the run has taken into its working set, has called classifyTab
\* for, has a classification for, or has put in a partition
IdsOfRun ==
  IdsIn(run.tabs) \cup SeqToSet(hist.prompted)
    \cup {run.classified[k].tabId : k \in 1..Len(run.classified)}
    \cup UNION {SeqToSet(run.groups[k].tabIds) : k \in 1..Len(run.groups)}
    \cup (IF req.type = "GROUP_TABS"
          THEN UNION {SeqToSet(req.groups[k].tabIds) :
                        k \in 1..Len(req.groups)}
          ELSE {})

\* C29: the run asks for the tabs only with the reply to DEDUPLICATE_TABS
\* received, and no tab the run's dedupe closed is in the working set, is
\* classified, is in a partition or is sent in the GROUP_TABS request
C29_ClosedDuplicatesNeverClassified ==
  /\ hist.read =>
       \E a, b \in 1..Len(hist.sent) :
         /\ a < b
         /\ hist.sent[a] = "DEDUPLICATE_TABS"
         /\ hist.sent[b] = "GET_TABS"
  /\ ("GET_TABS" \in SeqToSet(hist.sent) /\ hist.dedupe.ran) =>
       \A id \in SeqToSet(hist.dedupe.toClose) : ~TabExists(tabs, id)
  /\ hist.dedupe.ran =>
       SeqToSet(hist.dedupe.toClose) \cap IdsOfRun = {}

\* a run whose dedupe closed tab 2, the copy of tab 1, and whose GROUP_TABS
\* request holds tab 1 and not tab 2
C29_Witness ==
  /\ life.clicks = 1
  /\ hist.dedupe.toClose = <<2>>
  /\ req.type = "GROUP_TABS"
  /\ \E k \in 1..Len(req.groups) : 1 \in SeqToSet(req.groups[k].tabIds)


\* the partitions of the run with ENRICH_MIN tabs or more
LargePartitions ==
  {k \in 1..Len(run.clusters) : Len(run.clusters[k].items) >= ENRICH_MIN}

\* C24: while the run classifies and groups no EXTRACT_TAB_CONTENT request
\* has been sent: one is sent only with the run ended in success and
\* handleGroupTabs answered for every partition, and only for a tab of a
\* partition of 5 tabs or more
C24_ExtractionOnlyAfterGrouping ==
  /\ ~Succeeded => hist.extract = {}
  /\ hist.extract # {} =>
       /\ ~gt.active
       /\ req.type # "GROUP_TABS"
       /\ Len(run.groupResults) = Len(run.groups)
  /\ \A id \in hist.extract :
       \E k \in LargePartitions : id \in SeqToSet(run.groups[k].tabIds)

\* a run that has made a partition of five tabs and one of one tab, and has
\* asked for the content of the five and not of the one
C24_Witness ==
  /\ Succeeded
  /\ Cardinality(hist.extract) = ENRICH_MIN
  /\ \E k \in 1..Len(run.groups) :
       /\ k \notin LargePartitions
       /\ run.groups[k].tabIds # <<>>
       /\ SeqToSet(run.groups[k].tabIds) \cap hist.extract = {}
       /\ run.groupResults[k].error = ""


\* C40: a call of cleanupSessions in which a destroy() raises has still
\* destroyed every other handle that was held and leaves the three handles
\* unset
C40_CleanupSurvivesDestroyError ==
  \A k \in 1..Len(life.cleanups) :
    LET call == life.cleanups[k]
    IN call.raised =>
         /\ call.after = NoSessions
         /\ HeldIn(call.before) \ life.faulty \subseteq SeqToSet(call.destroyed)


\* how many events `ev` of capability `cap` initializeSessions has had
InitCount(ev, cap) ==
  Cardinality({k \in 1..Len(hist.init) :
                 hist.init[k] = InitEvent(ev, cap)})

\* the create() calls made and neither settled nor rejected
CreatesInFlight ==
  {c \in 1..Len(Capabilities) :
     InitCount("start", Capabilities[c])
       > InitCount("settle", Capabilities[c])
           + InitCount("reject", Capabilities[c])}

\* C32: on the path taken when a capability needs a download at most one
\* create() call is in flight, the calls are made in the order language
\* model, writer, summarizer, and the call for the writer or the summarizer
\* is made only with the call before it settled and the wait after it over
C32_SequentialCreation ==
  run.path = "sequential" =>
    /\ Cardinality(CreatesInFlight) <= 1
    /\ \A k \in 1..Len(hist.init) :
         hist.init[k].ev = "start" =>
           \E c \in 1..Len(Capabilities) :
             /\ hist.init[k].cap = Capabilities[c]
             /\ InitCount("start", Capabilities[c]) = 1
             /\ IF c = 1 THEN k = 1
                ELSE /\ k >= 3
                     /\ hist.init[k - 1] = InitEvent("wait", Capabilities[c - 1])
                     /\ hist.init[k - 2]
                          = InitEvent("settle", Capabilities[c - 1])

\* the three sessions made on the sequential path
C32_Witness ==
  /\ run.path = "sequential"
  /\ pc = "initialized"
  /\ Len(hist.init) = 8
  /\ InitCount("wait", "writer") = 1
  /\ hist.created = Capabilities

\* C33: each 'All models ready!' entry of the log is made with every one of
\* the three capabilities having reported 100 in this acquisition
C33_ReadyOnlyWithAllAtHundred ==
  \A k \in 1..Len(hist.ready) :
    \A cap \in DOMAIN hist.ready[k].reported :
      hist.ready[k].reported[cap] = 100


\* C31: no tab is prompted for twice, and with the partitions made the
\* session.prompt calls of the run are one for each tab of the working set;
\* the count stays at the size of the working set to the end of the run
C31_OnePromptPerTab ==
  /\ NoRepeats(hist.inferred)
  /\ SeqToSet(hist.inferred) \subseteq IdsIn(run.tabs)
  /\ (Partitioned \/ Succeeded) =>
       /\ SeqToSet(hist.inferred) = IdsIn(run.tabs)
       /\ Len(hist.inferred) = Len(run.tabs)

\* a succeeded run over six tabs, prompted for in two batches
C31_Witness ==
  /\ Succeeded
  /\ Len(run.tabs) = BATCH_SIZE + 1
  /\ Len(hist.inferred) = BATCH_SIZE + 1
  /\ Len(run.groupResults) > 0

\* the classifyTab calls of the run that have settled
FinishedCalls == Len(run.classified) + Cardinality(DOMAIN run.batchResults)

\* C35: the reports "Classifying n/total" made so far are no more than the
\* classifyTab calls that have settled
C35_ReportsFollowCompletion == Len(hist.reports) <= FinishedCalls


\* the place in the classified list at which a label first occurs
FirstSeen(label) ==
  CHOOSE i \in 1..Len(run.classified) :
    /\ run.classified[i].label = label
    /\ \A j \in 1..(i - 1) : run.classified[j].label # label

\* the place of tab id in the classified list
ClassifiedAt(id) ==
  CHOOSE i \in 1..Len(run.classified) : run.classified[i].tabId = id

\* C36: in the GROUP_TABS request the partition of the label that is first
\* seen earlier in the classified list comes earlier, and the tabs of a
\* partition are in their order in the classified list
C36_FirstSeenLabelOrder ==
  req.type = "GROUP_TABS" =>
    /\ \A a, b \in 1..Len(req.groups) :
         a < b => FirstSeen(req.groups[a].name) < FirstSeen(req.groups[b].name)
    /\ \A k \in 1..Len(req.groups) :
         \A m, n \in 1..Len(req.groups[k].tabIds) :
           m < n => ClassifiedAt(req.groups[k].tabIds[m])
                      < ClassifiedAt(req.groups[k].tabIds[n])


\* the tabs of partition k that are in a group made by the last request
GroupedByRequest(k) ==
  {j \in 1..Len(tabs) :
     /\ tabs[j].id \in SeqToSet(hist.grouping.groups[k].tabIds)
     /\ tabs[j].groupId > hist.grouping.groupSeq}

\* C37: a partition with a failure result has none of its tabs in a group
\* made by the request, and a partition with tabs in such a group has a
\* success result that counts them
C37_FailureMeansNoGroup ==
  hist.grouping.ran =>
    \A k \in 1..Len(ResultsSoFar) :
      /\ ResultsSoFar[k].error # "" =>
           /\ ResultsSoFar[k].count = 0
           /\ GroupedByRequest(k) = {}
      /\ GroupedByRequest(k) # {} =>
           /\ ResultsSoFar[k].error = ""
           /\ ResultsSoFar[k].count = Cardinality(GroupedByRequest(k))


----------------------------------------------------------------------------
(* The enrichment task of a card, with the extraction of each of its tabs
   answered, refused, failed, timed out or never answered on its own.  The
   10 second timer of uiRenderer.js line 159 and the settling of the two
   session calls are what the fairness conditions stand for. *)

\* the run at line 258: ENRICH_MIN tabs of the focused window classified
\* under one label by the sessions the run holds
InitExtract ==
  /\ tabs = [k \in 1..ENRICH_MIN |->
               Tab(k, UrlBbc, FillerTitle(k), FocusedWindowId, NoGroup)]
  /\ run = [IdleRun EXCEPT
              !.path = "direct", !.tabs = tabs, !.i = ENRICH_MIN,
              !.classified = ClassifiedAs([k \in 1..ENRICH_MIN |-> "News"])]
  /\ reply = [k \in 1..ENRICH_MIN |-> NewsReply]
  /\ tabGroups = {}
  /\ focused = [id |-> FocusedWindowId, type |-> "normal"]
  /\ doomed = {}
  /\ groupSeq = 0
  /\ sessions = [languageModel |-> 1, writer |-> 2, summarizer |-> 3]
  /\ disabled = FALSE
  /\ pc = "classify"
  /\ organizedTabsData = <<>>
  /\ enrich = {}
  /\ req = NoMsg
  /\ resp = NoMsg
  /\ hist = IdleHist
  /\ gt = IdleGt
  /\ cls = IdleCls
  /\ cards = NoCards
  /\ life = [NewLife EXCEPT
               !.made = [k \in 1..Len(Capabilities) |->
                           [cap |-> Capabilities[k], id |-> k]],
               !.clicks = 1]

\* the steps of the run and of the service worker from line 258 on
GroupingSteps ==
  \/ PartitionAndSend
  \/ HandleGroupTabs
  \/ RecvGroupTabs

\* the steps of the task itself
TaskSteps ==
  \E name \in DOMAIN cards :
    \/ ExtractionResolves(name)
    \/ PromiseAllResolves(name)
    \/ SummarizeSettles(name)
    \/ WriteSettles(name)

NextExtract ==
  \/ GroupingSteps
  \/ EnrichmentByTab

SpecExtract ==
  InitExtract /\ [][NextExtract]_vars
    /\ WF_vars(GroupingSteps) /\ WF_vars(TaskSteps)

\* C34: the two session calls of a card are issued only once the extraction
\* of every one of its tabs has resolved, each to the page's body or to the
\* tab as it was, and they are issued in the end even when a request is never
\* answered
C34_CallsFollowExtractions ==
  /\ [](\A name \in DOMAIN cards :
          LET card == cards[name]
          IN /\ card.withBody \cap card.waiting = {}
             /\ card.phase # "extracting" => card.waiting = {})
  /\ \A name \in {GroupNames[k] : k \in 1..Len(GroupNames)} :
       (name \in DOMAIN cards /\ cards[name].phase = "extracting")
         ~> (name \in DOMAIN cards /\ cards[name].phase # "extracting")

\* a card whose calls were issued although one of its requests was never
\* answered
C34_Witness ==
  \E name \in DOMAIN cards :
    /\ cards[name].phase = "generating"
    /\ cards[name].silent # {}


----------------------------------------------------------------------------
(* A click on the trigger while a run is under way.  The listener of
   sidepanel.js line 146 is entered again whenever the trigger is enabled;
   the model follows the second invocation as far as its write to the shared
   organizedTabsData (line 177).  Its requests are answered through callbacks
   of its own and are left out. *)

\* the first invocation is between its click and its end
RunUnderWay == pc \notin {"idle", "done"}

\* line 146 entered a second time: initializeSessions is awaited (line 148)
SecondClick ==
  /\ RunUnderWay
  /\ ~disabled
  /\ life.second = "none"
  /\ life' = [life EXCEPT !.second = "initializing"]
  /\ PlatformUnchanged
  /\ UNCHANGED <<sessions, disabled, pc, run, organizedTabsData, enrich, req,
                 resp, hist, cls, cards>>

\* lines 172-177 of the second invocation
SecondStartsClustering ==
  /\ life.second = "initializing"
  /\ organizedTabsData' = <<>>
  /\ life' = [life EXCEPT !.second = "clustering"]
  /\ PlatformUnchanged
  /\ UNCHANGED <<sessions, disabled, pc, run, enrich, req, resp, hist, cls,
                 cards>>

InitConcurrent == InitWindow({<<>>}, {1, 2}, BOOLEAN)

NextConcurrent ==
  \/ Click
  \/ InitializeSessions
  \/ PerformClusteringAndGrouping
  \/ Background
  \/ SecondClick
  \/ SecondStartsClustering

SpecConcurrent == InitConcurrent /\ [][NextConcurrent]_vars

\* C38: when the reply to GROUP_TABS is there and displayGroupResults is about
\* to run, organizedTabsData is the list the run itself classified
C38_DisplayReadsOwnList ==
  (pc = "awaitReply" /\ resp.type = "GROUP_TABS" /\ resp.ok)
    => organizedTabsData = [k \in 1..Len(run.classified) |->
                              Organized(run.classified[k])]


----------------------------------------------------------------------------
(* part_001 lines 9-49: the listener of the service worker and the handlers
   the run does not use *)

\* the tests of the listener, in the order of lines 10-47
ListenerChain ==
  <<"GET_TABS", "DEDUPLICATE_TABS", "GROUP_TABS", "EXTRACT_TAB_CONTENT",
    "UNGROUP_ALL", "UNGROUP_CATEGORY", "CHECK_GROUPS", "GET_EXISTING_GROUPS">>

KnownTypes == {ListenerChain[k] : k \in 1..Len(ListenerChain)}

PROTECTED_PAGE == "Cannot access protected browser pages"
CANNOT_INJECT == "Cannot inject scripts into this page (protected or restricted)"
TAB_GONE == "Tab no longer exists"
NO_CONTENT == "No content extracted from page"
PAGE_BODY == "page text"

\* lines 283-287: no url, or one of the browser's own schemes
ProtectedSchemes == {"chrome", "chrome-extension", "edge", "about"}
IsProtectedUrl(url) == url = NoUrl \/ url.scheme \in ProtectedSchemes

\* the mutant of a catch block that sends nothing
FailureUnsent(type, message) == NoMsg

\* the catch block of a handler: sendResponse({ ok: false, error })
Caught(type, message) == Failure(type, message)

\* handleCheckGroups (lines 84-91)
HandleCheckGroups ==
  /\ req.type = "CHECK_GROUPS"
  /\ resp = NoMsg
  /\ req' = NoMsg
  /\ \/ resp' = [type |-> "CHECK_GROUPS", ok |-> TRUE,
                 hasGroups |-> Cardinality(tabGroups) > 0]
     \/ resp' = Caught("CHECK_GROUPS", PLATFORM_ERROR)
  /\ PanelUnchanged
  /\ UNCHANGED <<tabs, tabGroups, focused, reply, doomed, gt, groupSeq, hist>>

\* handleUngroupCategory (lines 114-131)
HandleUngroupCategory ==
  /\ req.type = "UNGROUP_CATEGORY"
  /\ resp = NoMsg
  /\ req' = NoMsg
  /\ \/ LET named == {g \in tabGroups : g.title = req.categoryName}
            members == {tabs[k].id : k \in
                          {x \in 1..Len(tabs) :
                             tabs[x].groupId \in {g.id : g \in named}}}
        IN /\ tabs' = UngroupTabs(tabs, members)
           /\ tabGroups' = tabGroups \ named
           /\ resp' = [type |-> "UNGROUP_CATEGORY", ok |-> TRUE,
                       ungrouped |-> Cardinality(named)]
     \/ /\ resp' = Caught("UNGROUP_CATEGORY", PLATFORM_ERROR)
        /\ UNCHANGED <<tabs, tabGroups>>
  /\ PanelUnchanged
  /\ UNCHANGED <<focused, reply, doomed, gt, groupSeq, hist>>

\* handleExtractTabContent (lines 277-317) and extractPageContent (324-343)
HandleExtractTabContent ==
  /\ req.type = "EXTRACT_TAB_CONTENT"
  /\ resp = NoMsg
  /\ req' = NoMsg
  /\ IF req.tabId \notin TabIds(tabs) \/ req.tabId \in doomed
     THEN resp' = Caught("EXTRACT_TAB_CONTENT", TAB_GONE)
     ELSE LET tab == TabById(tabs, req.tabId)
          IN IF IsProtectedUrl(tab.url)
             THEN resp' = [type |-> "EXTRACT_TAB_CONTENT", ok |-> FALSE,
                           error |-> PROTECTED_PAGE, isProtected |-> TRUE]
             ELSE \/ resp' = [type |-> "EXTRACT_TAB_CONTENT", ok |-> TRUE,
                              result |-> [title |-> tab.title,
                                          host |-> tab.url.host,
                                          body |-> PAGE_BODY]]
                  \/ resp' = Failure("EXTRACT_TAB_CONTENT", NO_CONTENT)
                  \/ resp' = Caught("EXTRACT_TAB_CONTENT", CANNOT_INJECT)
                  \/ resp' = Caught("EXTRACT_TAB_CONTENT", PLATFORM_ERROR)
  /\ PanelUnchanged
  /\ UNCHANGED <<tabs, tabGroups, focused, reply, doomed, gt, groupSeq, hist>>

\* the requests of the known types over a window
KnownRequests(ts) ==
  {Request(type) : type \in {"GET_TABS", "DEDUPLICATE_TABS", "UNGROUP_ALL",
                             "CHECK_GROUPS", "GET_EXISTING_GROUPS"}}
    \cup {[type |-> "EXTRACT_TAB_CONTENT", tabId |-> id] :
            id \in 1..(Len(ts) + 1)}
    \cup {[type |-> "UNGROUP_CATEGORY", categoryName |-> name] :
            name \in {"Old", "News"}}
    \cup {[type |-> "GROUP_TABS",
           groups |-> <<[name |-> "News", tabIds |-> ids]>>] :
            ids \in {t \in {<<>>, <<1>>, <<1, 2>>} : Len(t) <= Len(ts)}}

MaxListenerPrefix == 1

InitListener ==
  /\ \E prefix \in Prefixes(MaxListenerPrefix), grouped \in BOOLEAN,
        type \in {"normal", "popup"} :
       /\ tabs = WindowTabs(prefix, 1, grouped)
       /\ reply = WindowReplies(prefix, 1)
       /\ doomed = WindowDoomed(prefix)
       /\ tabGroups = IF grouped THEN {NewGroup(1, "Old")} ELSE {}
       /\ groupSeq = IF grouped THEN 1 ELSE 0
       /\ focused = [id |-> FocusedWindowId, type |-> type]
  /\ req \in KnownRequests(tabs)
  /\ sessions = NoSessions
  /\ disabled = FALSE
  /\ pc = "idle"
  /\ run = IdleRun
  /\ organizedTabsData = <<>>
  /\ enrich = {}
  /\ resp = NoMsg
  /\ hist = IdleHist
  /\ gt = IdleGt
  /\ cls = IdleCls
  /\ cards = NoCards
  /\ life = NewLife

NextListener ==
  \/ HandleGetTabs
  \/ HandleDeduplicateTabs
  \/ HandleGroupTabs
  \/ HandleExtractTabContent
  \/ HandleUngroupAll
  \/ HandleUngroupCategory
  \/ HandleCheckGroups
  \/ HandleGetExistingGroups

SpecListener == InitListener /\ [][NextListener]_vars

\* the handlers that take the request the listener holds
Takers ==
  (IF ENABLED HandleGetTabs THEN {1} ELSE {})
    \cup (IF ENABLED HandleDeduplicateTabs THEN {2} ELSE {})
    \cup (IF ENABLED GroupTabsStart THEN {3} ELSE {})
    \cup (IF ENABLED HandleExtractTabContent THEN {4} ELSE {})
    \cup (IF ENABLED HandleUngroupAll THEN {5} ELSE {})
    \cup (IF ENABLED HandleUngroupCategory THEN {6} ELSE {})
    \cup (IF ENABLED HandleCheckGroups THEN {7} ELSE {})
    \cup (IF ENABLED HandleGetExistingGroups THEN {8} ELSE {})

\* the handler has returned
HandlerReturned == req = NoMsg /\ ~gt.active

\* C39: a request of a known type is taken by one handler, the one the
\* listener's chain names for its type, and the handler sends one response:
\* none is missing once it has returned, none is sent before, and none
\* follows the first
C39_OneHandlerOneResponse ==
  /\ [](req # NoMsg =>
          /\ req.type \in KnownTypes
          /\ Takers = {k \in 1..Len(ListenerChain) : ListenerChain[k] = req.type}
          /\ Cardinality(Takers) = 1)
  /\ [](HandlerReturned <=> resp # NoMsg)
  /\ [][/\ resp # NoMsg => resp' = resp
        /\ (req # NoMsg /\ resp' # NoMsg) => resp'.type = req.type
        /\ (gt.active /\ resp' # NoMsg) => resp'.type = "GROUP_TABS"]_vars

\* a request answered on the path that returns early
C39_Witness ==
  /\ resp.type = "EXTRACT_TAB_CONTENT"
  /\ ~resp.ok
  /\ resp.error = PROTECTED_PAGE

====
